---- MODULE Spec2Model ----
(***************************************************************************)
(* Model of the PR ingestion and batched LLM-summarization pipeline of     *)
(* ai-self-review: backend/fetch_prs.py (fetch_merged_prs),                *)
(* backend/summarize_prs.py (grouping, summarize_label, the thread-pool    *)
(* dispatch of summarize_prs_in_memory, the markdown assembly) and         *)
(* backend/api.py (generate_summary).                                      *)
(*                                                                         *)
(* Text payloads that no branch of the code looks at (a PR's title and     *)
(* body, a bullet's work_done and significance) are left out of the        *)
(* records; everything the code compares, groups by, sorts by or copies    *)
(* into a key is kept.                                                     *)
(***************************************************************************)
EXTENDS Integers, Sequences, FiniteSets, TLC

VARIABLES
    host,      \* the hosting API: repo -> the pages of its closed-PR listing
    fetch,     \* the frame of the running fetch_merged_prs call
    requested, \* page numbers fetch_merged_prs has requested, in order
    llm,       \* the LLM provider: which replies a chat completion may come back with
    calls,     \* task -> the frame of its summarize_label call
    sum,       \* the frame of the running summarize_prs_in_memory call
    futures,   \* task -> the Future that executor.submit returned for it
    api        \* the frame of the generate_summary request

vars == <<host, fetch, requested, llm, calls, sum, futures, api>>

(***************************************************************************)
(* Bounds of the model.                                                    *)
(***************************************************************************)
\* most PRs in one repository's listing
MaxListing == 4
\* most bullets in one LLM reply
MaxBullets == 2
\* largest max_retries a summarize_label call is given
MaxRetries == 4
\* most PRs handed to one summarize_prs_in_memory call
MaxPrs == 2
\* most batches submitted to the pool in the pool study
PoolTasks == 11

(***************************************************************************)
(* Data: timestamps, logins, raw API items, PullRequest.                   *)
(***************************************************************************)
\* the target year of the runs explored (the legacy script fixes 2025)
Year == 2025

\* the requested github_username, as a sequence of characters
Username == <<"A", "l">>

Repos == {"r1", "r2"}

\* str.lower() on the characters that occur in the logins of the model
LowerChar(c) ==
    CASE c = "A" -> "a"
      [] c = "L" -> "l"
      [] c = "B" -> "b"
      [] OTHER -> c

Lower(s) == [i \in DOMAIN s |-> LowerChar(s[i])]

\* a raw "merged_at" string "YYYY-MM-DDTHH:MM:SSZ" as its fields and its
\* zone designator; <<>> stands for null (or absent)
Stamp(y, mo, d, h, mi, s) == <<y, mo, d, h, mi, s, "Z">>

\* datetime.fromisoformat(s.replace("Z", "+00:00")).replace(tzinfo=None):
\* the wall-clock fields survive, the zone is dropped
ParseNaive(raw) == SubSeq(raw, 1, 6)

\* datetime(year, 1, 1) and datetime(year, 12, 31, 23, 59, 59)
start_date(year) == <<year, 1, 1, 0, 0, 0>>
end_date(year) == <<year, 12, 31, 23, 59, 59>>

\* naive datetime comparison a < b: lexicographic on the fields
DtLess(a, b) ==
    \E i \in 1..6 : a[i] < b[i] /\ \A j \in 1..(i - 1) : a[j] = b[j]

\* a raw item of the "list pull requests" endpoint.  user is <<>> (null) or
\* <<login>>; labels is a sequence of label objects.
RawItem(repo, n, login, merged, labelNames) ==
    [html_url  |-> <<repo, n>>,
     merged_at |-> merged,
     user      |-> login,
     labels    |-> [i \in DOMAIN labelNames |-> [name |-> labelNames[i]]]]

\* the closed PRs that exist in a repository of the fetch study: the
\* requested user's PRs around both ends of the year, another author's PR,
\* an unmerged PR and a PR whose author object is null
FetchWorld(repo) ==
    { RawItem(repo, 1, <<<<"a", "L">>>>, Stamp(Year - 1, 12, 31, 23, 59, 59), <<>>),
      RawItem(repo, 2, <<<<"a", "L">>>>, Stamp(Year, 1, 1, 0, 0, 0), <<"A", "B">>),
      RawItem(repo, 3, <<<<"A", "L">>>>, Stamp(Year, 12, 31, 23, 59, 59), <<>>),
      RawItem(repo, 4, <<<<"a", "l">>>>, Stamp(Year + 1, 1, 1, 0, 0, 0), <<"A">>),
      RawItem(repo, 5, <<<<"b", "o">>>>, Stamp(Year, 6, 15, 12, 0, 0), <<"A">>),
      RawItem(repo, 6, <<<<"A", "l">>>>, <<>>, <<"B">>),
      RawItem(repo, 7, <<>>, Stamp(Year, 3, 1, 8, 30, 0), <<>>) }

\* models.PullRequest (title and description left out)
PullRequest(pr, repo) ==
    [url         |-> pr.html_url,
     merged_at   |-> pr.merged_at,
     labels      |-> [i \in DOMAIN pr.labels |-> pr.labels[i].name],
     source_repo |-> repo]

\* a value of the request's JSON body
Json(type, val) == [type |-> type, val |-> val]
Null == Json("null", <<>>)

\* no request is being served
ApiOff ==
    [pc |-> "off", json |-> FALSE, data |-> <<>>, secrets |-> FALSE,
     repos |-> <<>>, year |-> 0, idx |-> 0, all_prs |-> <<>>,
     repos_with_prs |-> <<>>, fetched |-> <<>>, response |-> <<>>]

\* no summarize_prs_in_memory call is running
SumIdle ==
    [pc |-> "idle", prs |-> <<>>, tasks |-> <<>>, summaries |-> <<>>,
     document |-> <<>>, error |-> <<>>]

(***************************************************************************)
(* Listings: a repository's closed PRs, each once, cut into non-empty      *)
(* pages; every page past the last one is empty.                           *)
(***************************************************************************)
Injective(s) == \A i, j \in DOMAIN s : s[i] = s[j] => i = j

OrderedLists(world, n) ==
    UNION { {s \in [1..k -> world] : Injective(s)} : k \in 0..n }

\* the pages of list s when a new page starts after each position in cuts
RECURSIVE CutPages(_, _, _)
CutPages(s, cuts, from) ==
    IF from > Len(s) THEN <<>>
    ELSE LET ends == {c \in cuts : c >= from}
             to   == IF ends = {} THEN Len(s)
                     ELSE CHOOSE c \in ends : \A d \in ends : c <= d
         IN  <<SubSeq(s, from, to)>> \o CutPages(s, cuts, to + 1)

Pagings(world, n) ==
    UNION { { CutPages(s, cuts, 1) : cuts \in SUBSET (1..(Len(s) - 1)) }
            : s \in OrderedLists(world, n) }

\* the response body of GET .../pulls?page=p
PageOf(pages, p) == IF p \in DOMAIN pages THEN pages[p] ELSE <<>>

(***************************************************************************)
(* backend/fetch_prs.py: fetch_merged_prs                                  *)
(***************************************************************************)
max_consecutive_old_pages == 1

\* not pr.get("merged_at")
NotMerged(pr) == pr.merged_at = <<>>

\* not author or author.get("login", "").lower() != username.lower()
NotByUser(pr, username) ==
    \/ pr.user = <<>>
    \/ Lower(pr.user[1]) # Lower(username)

\* a slip that also drops a PR merged at the very start of the year
TooOldOrAtStart(pr, year) == ~DtLess(start_date(year), ParseNaive(pr.merged_at))

\* merged_at_naive < start_date
TooOld(pr, year) == DtLess(ParseNaive(pr.merged_at), start_date(year))

\* a slip that drops the "too new" test
TooNewNever(pr, year) == FALSE

\* merged_at_naive > end_date
TooNew(pr, year) == DtLess(end_date(year), ParseNaive(pr.merged_at))

\* the body of "for pr in prs", applied to the loop's running values
ProcessItem(acc, pr, username, repo, year) ==
    IF NotMerged(pr) THEN acc
    ELSE IF NotByUser(pr, username) THEN acc
    ELSE IF TooOld(pr, year) THEN [acc EXCEPT !.found_old_user_pr = TRUE]
    ELSE IF TooNew(pr, year) THEN acc
    ELSE [acc EXCEPT !.found_match_this_page = TRUE,
                     !.all_prs = Append(@, PullRequest(pr, repo))]

RECURSIVE ProcessItems(_, _, _, _, _)
ProcessItems(acc, prs, username, repo, year) ==
    IF prs = <<>> THEN acc
    ELSE ProcessItems(ProcessItem(acc, Head(prs), username, repo, year),
                      Tail(prs), username, repo, year)

\* a slip that lets one old page pass and stops at the second in a row
EarlyExitAtSecond(acc, consecutive) ==
    /\ ~acc.found_match_this_page
    /\ acc.found_old_user_pr
    /\ consecutive + 1 >= 2

\* the early-exit test that ends an iteration of "while True"
EarlyExit(acc, consecutive) ==
    /\ ~acc.found_match_this_page
    /\ acc.found_old_user_pr
    /\ consecutive + 1 >= max_consecutive_old_pages

\* a slip that steps over a page
NextPageSkips(page) == page + 2

\* page += 1
NextPage(page) == page + 1

\* one iteration of "while True" on a page that came back non-empty
AfterPage(f, prs, username, year) ==
    LET acc == ProcessItems([all_prs |-> f.all_prs,
                             found_match_this_page |-> FALSE,
                             found_old_user_pr |-> FALSE],
                            prs, username, f.repo, year)
        old == ~acc.found_match_this_page /\ acc.found_old_user_pr
        consecutive == IF old THEN f.consecutive_old_pages + 1
                       ELSE IF acc.found_match_this_page THEN 0
                       ELSE f.consecutive_old_pages
    IN  IF EarlyExit(acc, f.consecutive_old_pages)
        THEN [f EXCEPT !.all_prs = acc.all_prs,
                       !.consecutive_old_pages = consecutive,
                       !.pc = "returned"]
        ELSE [f EXCEPT !.all_prs = acc.all_prs,
                       !.consecutive_old_pages = consecutive,
                       !.page = NextPage(@)]

\* the frame of a fresh call fetch_merged_prs(token, username, repo, year)
FetchFrame(username, repo, year) ==
    [username |-> username, repo |-> repo, year |-> year, page |-> 1,
     all_prs |-> <<>>, consecutive_old_pages |-> 0, pc |-> "loop"]

\* no fetch_merged_prs call is running
FetchIdle == [FetchFrame(<<>>, "", 0) EXCEPT !.pc = "idle"]

\* requests.get(...) raises, or raise_for_status() does: the call ends with
\* the exception and its all_prs is gone
FetchHttpError ==
    /\ fetch.pc = "loop"
    /\ fetch' = [fetch EXCEPT !.pc = "raised", !.all_prs = <<>>]
    /\ requested' = Append(requested, fetch.page)
    /\ UNCHANGED <<host, llm, calls, sum, futures, api>>

\* the page comes back empty: "if not prs: break", then "return all_prs"
FetchEmptyPage ==
    /\ fetch.pc = "loop"
    /\ PageOf(host[fetch.repo], fetch.page) = <<>>
    /\ fetch' = [fetch EXCEPT !.pc = "returned"]
    /\ requested' = Append(requested, fetch.page)
    /\ UNCHANGED <<host, llm, calls, sum, futures, api>>

\* the page comes back with items: filter them, then early exit or page += 1
FetchPage ==
    /\ fetch.pc = "loop"
    /\ PageOf(host[fetch.repo], fetch.page) # <<>>
    /\ fetch' = AfterPage(fetch, PageOf(host[fetch.repo], fetch.page),
                        fetch.username, fetch.year)
    /\ requested' = Append(requested, fetch.page)
    /\ UNCHANGED <<host, llm, calls, sum, futures, api>>

(***************************************************************************)
(* fetch_prs.py (the legacy script): fetch_merged_prs, the same loop with  *)
(* no early exit; it emits dicts with no source_repo.                      *)
(***************************************************************************)
\* the dict appended to all_prs (title and description left out)
LegacyDict(pr) ==
    [url       |-> pr.html_url,
     merged_at |-> pr.merged_at,
     labels    |-> [i \in DOMAIN pr.labels |-> pr.labels[i].name]]

\* the tests of "for pr in prs": not merged, not the user, outside the year
LegacyKeeps(pr, username) ==
    /\ pr.merged_at # <<>>
    /\ pr.user # <<>>
    /\ Lower(pr.user[1]) = Lower(username)
    /\ ~DtLess(ParseNaive(pr.merged_at), start_date(Year))
    /\ ~DtLess(end_date(Year), ParseNaive(pr.merged_at))

RECURSIVE LegacyItems(_, _, _)
LegacyItems(all_prs, prs, username) ==
    IF prs = <<>> THEN all_prs
    ELSE LegacyItems(IF LegacyKeeps(Head(prs), username)
                     THEN Append(all_prs, LegacyDict(Head(prs)))
                     ELSE all_prs,
                     Tail(prs), username)

\* "while True" from page on, every request answered
RECURSIVE LegacyLoop(_, _, _, _)
LegacyLoop(pages, page, all_prs, username) ==
    IF PageOf(pages, page) = <<>> THEN all_prs
    ELSE LegacyLoop(pages, page + 1,
                    LegacyItems(all_prs, PageOf(pages, page), username), username)

legacy_fetch_merged_prs(pages, username) == LegacyLoop(pages, 1, <<>>, username)

(***************************************************************************)
(* The fetch study: one call of fetch_merged_prs on any listing of r1.     *)
(***************************************************************************)
InitFetch ==
    /\ \E pages \in Pagings(FetchWorld("r1"), MaxListing) :
           host = [r \in Repos |-> IF r = "r1" THEN pages ELSE <<>>]
    /\ fetch = FetchFrame(Username, "r1", Year)
    /\ requested = <<>>
    /\ llm = "off"
    /\ calls = <<>>
    /\ sum = SumIdle
    /\ futures = <<>>
    /\ api = ApiOff

NextFetch == FetchHttpError \/ FetchEmptyPage \/ FetchPage

SpecFetch == InitFetch /\ [][NextFetch]_vars

\* every requests.get returns or raises (timeout=30), and the loop body
\* between two requests always runs to its end
SpecFetchFair == SpecFetch /\ WF_vars(NextFetch)

(***************************************************************************)
(* backend/summarize_prs.py: the reply of one chat completion, and         *)
(* summarize_label's retry loop.                                           *)
(***************************************************************************)
\* a PullRequest as summarize_prs_in_memory receives it
PR(repo, n, labelNames, source_repo) ==
    [url         |-> <<repo, n>>,
     merged_at   |-> Stamp(Year, 6, 15, 12, 0, 0),
     labels      |-> labelNames,
     source_repo |-> source_repo]

\* the URL the LLM may cite that belongs to no PR of the run
ForeignUrl == <<"elsewhere", 1>>

Areas == {"Craft", "Impact"}
Titles == {"t1", "t2"}

\* SummaryBullet (work_done and significance left out); a PRCitation is
\* kept as its url
SummaryBullets(titles, urls) ==
    [title : titles, career_area : Areas,
     pr_citations : {<<>>} \cup {<<u>> : u \in urls}]

\* what client.chat.completions.create(...) can come back with: it raises;
\* the content is empty; the content does not validate as a
\* SummaryResponse; or it validates, with these bullets
Reply(kind, bullets) == [kind |-> kind, bullets |-> bullets]

FailedReplies == {Reply("raises", <<>>), Reply("empty", <<>>), Reply("invalid", <<>>)}

JsonReplies(titles, urls, n) ==
    { Reply("json", b) :
        b \in UNION {[1..k -> SummaryBullets(titles, urls)] : k \in 0..n} }

\* the provider of the retry study: any failure, or any response of up to
\* MaxBullets bullets that cite nothing, PR 1 of r1 or the foreign URL
AnyReply ==
    FailedReplies \cup JsonReplies({"t1"}, {<<"r1", 1>>, ForeignUrl}, MaxBullets)

\* the provider of the whole-request study: the call raises; one bullet;
\* three bullets of two areas, the later area first and last
MenuReplies ==
    { Reply("raises", <<>>),
      Reply("json", <<[title |-> "t1", career_area |-> "Impact",
                       pr_citations |-> <<>>]>>),
      Reply("json", <<[title |-> "t1", career_area |-> "Impact",
                       pr_citations |-> <<>>],
                      [title |-> "t2", career_area |-> "Craft",
                       pr_citations |-> <<>>],
                      [title |-> "t3", career_area |-> "Impact",
                       pr_citations |-> <<>>]>>) }

\* the provider of the dispatch study: the menu, and one bullet that cites
\* PR 2 of r1
CitingReplies ==
    MenuReplies \cup
    { Reply("json", <<[title |-> "t2", career_area |-> "Craft",
                       pr_citations |-> << <<"r1", 2>> >>]>>) }

\* a provider that always answers with the same single bullet
OneReply ==
    { Reply("json", <<[title |-> "t1", career_area |-> "Impact",
                       pr_citations |-> <<>>]>>) }

\* the replies the provider may give in this run
Replies ==
    IF llm = "any" THEN AnyReply
    ELSE IF llm = "menu" THEN MenuReplies
    ELSE IF llm = "citing" THEN CitingReplies
    ELSE IF llm = "one" THEN OneReply
    ELSE {}

\* a slip that accepts any cited URL
CitedUrlsKnownAlways(bullets, pr_urls) == TRUE

\* "for bullet ... for citation ...: if citation.url not in all_urls: raise"
\* finds nothing to raise for
CitedUrlsKnown(bullets, pr_urls) ==
    \A i \in DOMAIN bullets :
        \A j \in DOMAIN bullets[i].pr_citations :
            bullets[i].pr_citations[j] \in {pr_urls[k] : k \in DOMAIN pr_urls}

\* the exception one pass through the try block ends with, or "ok"
AttemptOutcome(reply, pr_urls) ==
    IF reply.kind = "raises" THEN "transport"
    ELSE IF reply.kind = "empty" THEN "empty"
    ELSE IF reply.kind = "invalid" THEN "schema"
    ELSE IF ~CitedUrlsKnown(reply.bullets, pr_urls) THEN "citation"
    ELSE "ok"

\* a slip that always waits one second
WaitTimeFixed(attempt) == 1

\* a slip that backs off linearly
WaitTimeLinear(attempt) == attempt + 1

\* wait_time = 2 ** attempt
WaitTime(attempt) == 2 ^ attempt

\* a slip that also sleeps after the last attempt
RetryLeftAlways(attempt, max_retries) == TRUE

\* the LLM calls made so far by all the summarize_label frames together
RECURSIVE CallsMade(_)
CallsMade(frames) ==
    IF frames = <<>> THEN 0 ELSE Head(frames).n_calls + CallsMade(Tail(frames))

\* a slip that counts the attempts of every batch against one budget
RetryLeftShared(attempt, max_retries) == CallsMade(calls) < max_retries - 1

\* attempt < max_retries - 1
RetryLeft(attempt, max_retries) == attempt < max_retries - 1

\* the frame of a fresh call summarize_label(client, label, prs, ...)
LabelFrame(label, prs, max_retries) ==
    [label       |-> label,
     pr_urls     |-> [i \in DOMAIN prs |-> prs[i].url],
     max_retries |-> max_retries,
     attempt     |-> 0,
     last_error  |-> "None",
     reply       |-> Reply("none", <<>>),
     n_calls     |-> 0,
     waits       |-> <<>>,
     pc          |-> "loop",
     summary     |-> <<>>,
     error       |-> <<>>]

\* a slip that keeps the first error
FirstError(previous, e) == IF previous = "None" THEN e ELSE previous

\* "except Exception as e: last_error = e"
LastError(previous, e) == e

\* a slip that backs off once more before it returns the response
AfterAttemptSleepThenReturn(c, reply) ==
    LET outcome == AttemptOutcome(reply, c.pr_urls)
        called  == [c EXCEPT !.n_calls = @ + 1, !.reply = reply]
    IN  IF outcome = "ok"
        THEN [called EXCEPT !.summary = reply.bullets,
                            !.waits = Append(@, WaitTime(c.attempt)),
                            !.pc = "returned"]
        ELSE IF RetryLeft(c.attempt, c.max_retries)
        THEN [called EXCEPT !.last_error = LastError(@, outcome),
                            !.waits = Append(@, WaitTime(c.attempt)),
                            !.pc = "sleep"]
        ELSE [called EXCEPT !.last_error = LastError(@, outcome),
                            !.attempt = @ + 1]

\* one pass of "for attempt in range(max_retries)" up to the return, the
\* start of time.sleep, or the end of the except block
AfterAttempt(c, reply) ==
    LET outcome == AttemptOutcome(reply, c.pr_urls)
        called  == [c EXCEPT !.n_calls = @ + 1, !.reply = reply]
    IN  IF outcome = "ok"
        THEN [called EXCEPT !.summary = reply.bullets, !.pc = "returned"]
        ELSE IF RetryLeft(c.attempt, c.max_retries)
        THEN [called EXCEPT !.last_error = LastError(@, outcome),
                            !.waits = Append(@, WaitTime(c.attempt)),
                            !.pc = "sleep"]
        ELSE [called EXCEPT !.last_error = LastError(@, outcome),
                            !.attempt = @ + 1]

\* a slip that tries once before it looks at max_retries
LabelAttemptAtLeastOnce(t) ==
    /\ calls[t].pc = "loop"
    /\ calls[t].attempt < calls[t].max_retries \/ calls[t].n_calls = 0
    /\ \E reply \in Replies : calls' = [calls EXCEPT ![t] = AfterAttempt(@, reply)]
    /\ UNCHANGED <<host, fetch, requested, llm, sum, futures, api>>

\* the LLM call of one attempt comes back and is handled
LabelAttempt(t) ==
    /\ calls[t].pc = "loop"
    /\ calls[t].attempt < calls[t].max_retries
    /\ \E reply \in Replies : calls' = [calls EXCEPT ![t] = AfterAttempt(@, reply)]
    /\ UNCHANGED <<host, fetch, requested, llm, sum, futures, api>>

\* a slip that retries without counting the attempt
LabelWakeSameAttempt(t) ==
    /\ calls[t].pc = "sleep"
    /\ calls' = [calls EXCEPT ![t].pc = "loop"]
    /\ UNCHANGED <<host, fetch, requested, llm, sum, futures, api>>

\* time.sleep(wait_time) returns: the next attempt
LabelWake(t) ==
    /\ calls[t].pc = "sleep"
    /\ calls' = [calls EXCEPT ![t].attempt = @ + 1, ![t].pc = "loop"]
    /\ UNCHANGED <<host, fetch, requested, llm, sum, futures, api>>

\* the for loop is over: raise ValueError(f"Failed to summarize {label}
\* after {max_retries} attempts: {last_error}")
LabelRaise(t) ==
    /\ calls[t].pc = "loop"
    /\ calls[t].attempt >= calls[t].max_retries
    /\ calls' = [calls EXCEPT ![t].pc = "raised",
                              ![t].error = <<[label    |-> calls[t].label,
                                              attempts |-> calls[t].max_retries,
                                              cause    |-> calls[t].last_error]>>]
    /\ UNCHANGED <<host, fetch, requested, llm, sum, futures, api>>

(***************************************************************************)
(* The retry study: one summarize_label call, for a batch of one or two    *)
(* PRs, any max_retries up to MaxRetries and any reply at each attempt.    *)
(***************************************************************************)
LabelWorld == {PR("r1", 1, <<"A", "B">>, "r1"), PR("r1", 2, <<"A">>, "r1")}

InitLabel ==
    /\ host = [r \in Repos |-> <<>>]
    /\ fetch = FetchIdle
    /\ requested = <<>>
    /\ llm = "any"
    /\ \E prs \in OrderedLists(LabelWorld, 2) \ {<<>>}, m \in 0..MaxRetries :
           calls = <<LabelFrame(<<"r1", "A">>, prs, m)>>
    /\ sum = SumIdle
    /\ futures = <<>>
    /\ api = ApiOff

NextLabel ==
    \/ \E t \in DOMAIN calls : LabelAttempt(t)
    \/ \E t \in DOMAIN calls : LabelWake(t)
    \/ \E t \in DOMAIN calls : LabelRaise(t)

SpecLabel == InitLabel /\ [][NextLabel]_vars

(***************************************************************************)
(* Python dicts keep insertion order: a dict is the sequence of its        *)
(* entries.  Strings compare by code point.                                *)
(***************************************************************************)
Entry(k, v) == [key |-> k, value |-> v]

HasKey(d, k) == \E i \in DOMAIN d : d[i].key = k

DictGet(d, k) == d[CHOOSE i \in DOMAIN d : d[i].key = k].value

DictKeys(d) == {d[i].key : i \in DOMAIN d}

\* d[k] = v
DictSet(d, k, v) ==
    IF HasKey(d, k)
    THEN [i \in DOMAIN d |-> IF d[i].key = k THEN Entry(k, v) ELSE d[i]]
    ELSE Append(d, Entry(k, v))

\* d[k].append(v) on a defaultdict(list)
DictListAppend(d, k, v) ==
    DictSet(d, k, IF HasKey(d, k) THEN Append(DictGet(d, k), v) ELSE <<v>>)

\* the names of the model in code-point order (upper case before lower)
CodePointOrder ==
    <<"A", "B", "Craft", "Impact", "r1", "r2", "unknown", "unlabeled">>

StrRank(x) == CHOOSE i \in DOMAIN CodePointOrder : CodePointOrder[i] = x

\* x < y on strings
StrLess(x, y) == StrRank(x) < StrRank(y)

\* a slip that sorts in descending order
RECURSIVE SortedDescending(_)
SortedDescending(keys) ==
    IF keys = {} THEN <<>>
    ELSE LET k == CHOOSE x \in keys : \A y \in keys : ~StrLess(x, y)
         IN  <<k>> \o SortedDescending(keys \ {k})

\* the strings of a set in ascending order
RECURSIVE Sorted(_)
Sorted(keys) ==
    IF keys = {} THEN <<>>
    ELSE LET k == CHOOSE x \in keys : \A y \in keys : ~StrLess(y, x)
         IN  <<k>> \o Sorted(keys \ {k})

\* a slip that iterates a dict's keys as they are, in insertion order
KeysAsInserted(d) == [i \in DOMAIN d |-> d[i].key]

\* sorted(d.keys()); sorted(d.items()) visits the entries in the same order,
\* the keys of a dict being distinct
SortedKeys(d) == Sorted(DictKeys(d))

\* "\n".join(lines), kept as the sequence of the text's lines: the join of
\* no lines is the empty string, which is one empty line
JoinLines(lines) == IF lines = <<>> THEN << <<>> >> ELSE lines

RECURSIVE Flatten(_)
Flatten(ss) == IF ss = <<>> THEN <<>> ELSE Head(ss) \o Flatten(Tail(ss))

(***************************************************************************)
(* backend/summarize_prs.py: grouping into batches                         *)
(***************************************************************************)
\* pr.source_repo or "unknown"
RepoKey(pr) == IF pr.source_repo = "" THEN "unknown" ELSE pr.source_repo

RECURSIVE group_prs_by_repo_from(_, _)
group_prs_by_repo_from(grouped, prs) ==
    IF prs = <<>> THEN grouped
    ELSE group_prs_by_repo_from(
             DictListAppend(grouped, RepoKey(Head(prs)), Head(prs)), Tail(prs))

\* a slip that files every PR under the repository of the first one
GroupUnderFirstRepo(prs) ==
    IF prs = <<>> THEN <<>> ELSE <<Entry(RepoKey(Head(prs)), prs)>>

group_prs_by_repo(prs) == group_prs_by_repo_from(<<>>, prs)

\* "for label in pr.labels: grouped[label].append(pr)"
RECURSIVE AppendUnderLabels(_, _, _)
AppendUnderLabels(grouped, labels, pr) ==
    IF labels = <<>> THEN grouped
    ELSE AppendUnderLabels(DictListAppend(grouped, Head(labels), pr),
                           Tail(labels), pr)

\* a slip that files a labelled PR under its first label only
LabelsOfFirstOnly(pr) == <<Head(pr.labels)>>

\* the labels a labelled PR is filed under
LabelsOf(pr) == pr.labels

RECURSIVE group_prs_by_label_only_from(_, _)
group_prs_by_label_only_from(grouped, prs) ==
    IF prs = <<>> THEN grouped
    ELSE LET pr == Head(prs) IN
         group_prs_by_label_only_from(
             IF pr.labels # <<>>
             THEN AppendUnderLabels(grouped, LabelsOf(pr), pr)
             ELSE DictListAppend(grouped, "unlabeled", pr),
             Tail(prs))

\* a slip that makes no batch for the PRs without labels
RECURSIVE GroupLabelledOnly(_, _)
GroupLabelledOnly(grouped, prs) ==
    IF prs = <<>> THEN grouped
    ELSE GroupLabelledOnly(AppendUnderLabels(grouped, Head(prs).labels, Head(prs)),
                           Tail(prs))

GroupDroppingUnlabeled(prs) == GroupLabelledOnly(<<>>, prs)

\* a slip that creates the "unlabeled" group before looking at any PR
GroupWithUnlabeledSeeded(prs) ==
    group_prs_by_label_only_from(<<Entry("unlabeled", <<>>)>>, prs)

group_prs_by_label_only(prs) == group_prs_by_label_only_from(<<>>, prs)

\* batches[repo] = group_prs_by_label_only(repo_prs), for each repo
Batches(prs) ==
    LET grouped_by_repo == group_prs_by_repo(prs)
    IN  [i \in DOMAIN grouped_by_repo |->
            Entry(grouped_by_repo[i].key,
                  group_prs_by_label_only(grouped_by_repo[i].value))]

\* tasks: the (repo, label, prs) of every batch, repo by repo
Tasks(batches) ==
    Flatten([i \in DOMAIN batches |->
                [j \in DOMAIN batches[i].value |->
                    [repo  |-> batches[i].key,
                     label |-> batches[i].value[j].key,
                     prs   |-> batches[i].value[j].value]]])

(***************************************************************************)
(* backend/summarize_prs.py: format_summary_with_citations and the final   *)
(* document.  A line is a tuple of its marker and what it interpolates;    *)
(* <<>> is the empty line.                                                 *)
(***************************************************************************)
\* a slip that starts a new group for every bullet
GroupByAreaEachAlone(grouped, bullets) ==
    grouped \o [i \in DOMAIN bullets |-> Entry(bullets[i].career_area, <<bullets[i]>>)]

\* a slip that goes through the bullets from the last to the first
RECURSIVE GroupByAreaFromLast(_, _)
GroupByAreaFromLast(grouped, bullets) ==
    IF bullets = <<>> THEN grouped
    ELSE GroupByAreaFromLast(
             DictListAppend(grouped, bullets[Len(bullets)].career_area,
                            bullets[Len(bullets)]),
             SubSeq(bullets, 1, Len(bullets) - 1))

\* "for bullet in summary_response.bullets:
\*      grouped_by_area[bullet.career_area].append(bullet)"
RECURSIVE GroupByArea(_, _)
GroupByArea(grouped, bullets) ==
    IF bullets = <<>> THEN grouped
    ELSE GroupByArea(DictListAppend(grouped, Head(bullets).career_area, Head(bullets)),
                     Tail(bullets))

BulletLines(bullet, last) ==
    << <<"- **", bullet.title>>, <<>>, <<"  **Work Done:**", bullet.title>>, <<>>,
       <<"  **Cited PRs:**">> >>
    \o [j \in DOMAIN bullet.pr_citations |-> <<"  - [", bullet.pr_citations[j]>>]
    \o << <<>>, <<"  **Significance:**">>, <<"  ", bullet.title>> >>
    \o (IF last THEN <<>> ELSE << <<>> >>)

AreaLines(area, bullets) ==
    << <<"###", area>>, <<>> >>
    \o Flatten([i \in DOMAIN bullets |-> BulletLines(bullets[i], i = Len(bullets))])
    \o << <<>> >>

format_summary_with_citations(bullets) ==
    LET grouped_by_area == GroupByArea(<<>>, bullets)
        sorted_areas    == Sorted(DictKeys(grouped_by_area))
    IN  JoinLines(Flatten([a \in DOMAIN sorted_areas |->
                     AreaLines(sorted_areas[a], DictGet(grouped_by_area, sorted_areas[a]))]))

\* a slip that leaves the label heading out
LabelSectionsWithoutHeading(by_label) ==
    LET labels == SortedKeys(by_label)
    IN  Flatten([l \in DOMAIN labels |-> DictGet(by_label, labels[l]) \o << <<>> >>])

\* "for label, summary in sorted(summaries[repo].items())"
LabelSections(by_label) ==
    LET labels == SortedKeys(by_label)
    IN  Flatten([l \in DOMAIN labels |->
            << <<"###", labels[l]>>, <<>> >> \o DictGet(by_label, labels[l]) \o << <<>> >>])

\* the markdown that summarize_prs_in_memory returns
Document(summaries) ==
    LET repos == SortedKeys(summaries)
    IN  JoinLines(Flatten([r \in DOMAIN repos |->
            << <<"##", repos[r]>>, <<>> >> \o LabelSections(DictGet(summaries, repos[r]))]))

(***************************************************************************)
(* backend/summarize_prs.py: summarize_prs_in_memory, its thread pool and  *)
(* process_batch                                                           *)
(***************************************************************************)
\* summarize_label's default max_retries
DefaultMaxRetries == 3

\* the ceiling of ThreadPoolExecutor(max_workers=min(len(tasks), 10))
PoolCeiling == 10

\* a slip that sizes the pool by the tasks alone
MaxWorkersUncapped(tasks) == Len(tasks)

\* min(len(tasks), 10)
max_workers(tasks) == IF Len(tasks) < PoolCeiling THEN Len(tasks) ELSE PoolCeiling

NoCall == [LabelFrame(<<"", "">>, <<>>, 0) EXCEPT !.pc = "idle"]

PendingFuture == [state |-> "pending", result |-> <<>>, error |-> <<>>, collected |-> FALSE]

Finished(f) == f.state \in {"done", "failed"}

\* the call is entered: the PRs are grouped and the tasks built; the pool
\* is created (ThreadPoolExecutor rejects max_workers = 0) and every task
\* is submitted
SummarizeStart ==
    /\ sum.pc = "enter"
    /\ LET tasks == Tasks(Batches(sum.prs)) IN
       IF max_workers(tasks) = 0
       THEN /\ sum' = [sum EXCEPT !.pc = "raised", !.error = <<"max_workers">>]
            /\ UNCHANGED <<futures, calls>>
       ELSE /\ sum' = [sum EXCEPT !.pc = "collecting", !.tasks = tasks]
            /\ futures' = [t \in DOMAIN tasks |-> PendingFuture]
            /\ calls' = [t \in DOMAIN tasks |-> NoCall]
    /\ UNCHANGED <<host, fetch, requested, llm, api>>

\* a free worker thread takes the oldest queued task and enters
\* process_batch, which calls summarize_label
WorkerStart(t) ==
    /\ futures[t].state = "pending"
    /\ \A u \in DOMAIN futures : u < t => futures[u].state # "pending"
    /\ Cardinality({u \in DOMAIN futures : futures[u].state = "running"})
         < max_workers(sum.tasks)
    /\ futures' = [futures EXCEPT ![t].state = "running"]
    /\ calls' = [calls EXCEPT ![t] =
                    LabelFrame(<<sum.tasks[t].repo, sum.tasks[t].label>>,
                               sum.tasks[t].prs, DefaultMaxRetries)]
    /\ UNCHANGED <<host, fetch, requested, llm, sum, api>>

\* a slip in which the worker itself stores its result in summaries
BatchFinishStoring(t) ==
    /\ futures[t].state = "running"
    /\ calls[t].pc \in {"returned", "raised"}
    /\ futures' = [futures EXCEPT ![t] =
          IF calls[t].pc = "returned"
          THEN [@ EXCEPT !.state = "done",
                         !.result = <<sum.tasks[t].repo, sum.tasks[t].label,
                                      format_summary_with_citations(calls[t].summary)>>]
          ELSE [@ EXCEPT !.state = "failed", !.error = calls[t].error]]
    /\ calls' = [calls EXCEPT ![t] = [NoCall EXCEPT !.pc = "over",
                                                   !.n_calls = calls[t].n_calls,
                                                   !.summary = calls[t].summary]]
    /\ sum' = IF calls[t].pc = "returned"
              THEN [sum EXCEPT !.summaries =
                       DictSet(@, sum.tasks[t].repo,
                               <<Entry(sum.tasks[t].label,
                                       format_summary_with_citations(calls[t].summary))>>)]
              ELSE sum
    /\ UNCHANGED <<host, fetch, requested, llm, api>>

\* the summarize_label call of batch t has returned or raised and
\* process_batch has not yet left
BatchOver(t) ==
    /\ futures[t].state = "running"
    /\ calls[t].pc \in {"returned", "raised"}

\* summarize_label is over: process_batch formats and returns, or the
\* terminal error leaves it; either way the future is set and the frames
\* are gone (the response that was returned and the number of LLM calls
\* made stay on record)
BatchFinish(t) ==
    /\ BatchOver(t)
    /\ futures' = [futures EXCEPT ![t] =
          IF calls[t].pc = "returned"
          THEN [@ EXCEPT !.state = "done",
                         !.result = <<sum.tasks[t].repo, sum.tasks[t].label,
                                      format_summary_with_citations(calls[t].summary)>>]
          ELSE [@ EXCEPT !.state = "failed", !.error = calls[t].error]]
    /\ calls' = [calls EXCEPT ![t] = [NoCall EXCEPT !.pc = "over",
                                                   !.n_calls = calls[t].n_calls,
                                                   !.summary = calls[t].summary]]
    /\ UNCHANGED <<host, fetch, requested, llm, sum, api>>

\* a slip that starts the repository's dict afresh at every result
AfterResultFreshDict(s, result) ==
    [s EXCEPT !.summaries = DictSet(@, result[1], <<Entry(result[2], result[3])>>)]

\* "repo, label, formatted_summary = future.result()" returned:
\* "summaries[repo][label] = formatted_summary"
AfterResult(s, result) ==
    LET repo == result[1]
        label == result[2]
        by_label == IF HasKey(s.summaries, repo) THEN DictGet(s.summaries, repo) ELSE <<>>
    IN  [s EXCEPT !.summaries = DictSet(@, repo, DictSet(by_label, label, result[3]))]

\* a slip that drops a failed batch and keeps collecting
AfterExceptionSkip(s, error) == s

\* future.result() raised: the exception leaves the for loop
AfterException(s, error) == [s EXCEPT !.pc = "unwinding", !.error = error]

\* "for future in as_completed(futures)": the next finished future;
\* future.result() returns its tuple, which is stored, or raises
Collect(t) ==
    /\ sum.pc = "collecting"
    /\ Finished(futures[t])
    /\ ~futures[t].collected
    /\ futures' = [futures EXCEPT ![t].collected = TRUE]
    /\ sum' = IF futures[t].state = "done"
              THEN AfterResult(sum, futures[t].result)
              ELSE AfterException(sum, futures[t].error)
    /\ UNCHANGED <<host, fetch, requested, llm, calls, api>>

\* a slip that lets the exception out without joining the workers
SumUnwindAtOnce ==
    /\ sum.pc = "unwinding"
    /\ sum' = [sum EXCEPT !.pc = "raised"]
    /\ UNCHANGED <<host, fetch, requested, llm, calls, futures, api>>

\* the exception leaves the with block: executor.shutdown(wait=True) joins
\* the workers, which first run every submitted task; then it propagates
SumUnwind ==
    /\ sum.pc = "unwinding"
    /\ \A t \in DOMAIN futures : Finished(futures[t])
    /\ sum' = [sum EXCEPT !.pc = "raised"]
    /\ UNCHANGED <<host, fetch, requested, llm, calls, futures, api>>

\* as_completed has yielded every future and none raised
AllTaken ==
    /\ sum.pc = "collecting"
    /\ \A t \in DOMAIN futures : futures[t].collected

\* every future was collected: the document is built and returned
Assemble ==
    /\ AllTaken
    /\ sum' = [sum EXCEPT !.pc = "returned", !.document = Document(sum.summaries)]
    /\ UNCHANGED <<host, fetch, requested, llm, calls, futures, api>>

(***************************************************************************)
(* The dispatch study: one summarize_prs_in_memory call on up to MaxPrs    *)
(* PRs of two repositories, the provider answering from a short menu.      *)
(***************************************************************************)
\* a PR with two labels and a PR with none in r1, and a PR that carries no
\* source_repo
SumWorld ==
    { PR("r1", 1, <<"A", "B">>, "r1"), PR("r1", 2, <<>>, "r1"),
      PR("r9", 1, <<"A">>, "") }

InitSummarize ==
    /\ host = [r \in Repos |-> <<>>]
    /\ fetch = FetchIdle
    /\ requested = <<>>
    /\ llm = "citing"
    /\ calls = <<>>
    /\ futures = <<>>
    /\ api = ApiOff
    /\ \E prs \in OrderedLists(SumWorld, MaxPrs) :
           sum = [SumIdle EXCEPT !.pc = "enter", !.prs = prs]

NextSummarize ==
    \/ SummarizeStart
    \/ \E t \in DOMAIN futures : WorkerStart(t)
    \/ \E t \in DOMAIN futures : LabelAttempt(t)
    \/ \E t \in DOMAIN futures : LabelWake(t)
    \/ \E t \in DOMAIN futures : LabelRaise(t)
    \/ \E t \in DOMAIN futures : BatchFinish(t)
    \/ \E t \in DOMAIN futures : Collect(t)
    \/ SumUnwind
    \/ Assemble

SpecSummarize == InitSummarize /\ [][NextSummarize]_vars

\* a step of NextSummarize is possible: the guards of its disjuncts
\* (SummarizeStart has none but its pc)
SummarizeCanStep ==
    \/ sum.pc = "enter"
    \/ ENABLED (\E t \in DOMAIN futures : WorkerStart(t))
    \/ ENABLED (\E t \in DOMAIN futures : LabelAttempt(t))
    \/ ENABLED (\E t \in DOMAIN futures : LabelWake(t))
    \/ ENABLED (\E t \in DOMAIN futures : LabelRaise(t))
    \/ \E t \in DOMAIN futures : BatchOver(t)
    \/ ENABLED (\E t \in DOMAIN futures : Collect(t))
    \/ ENABLED SumUnwind
    \/ AllTaken

\* every LLM call and every time.sleep returns, the pool's threads keep
\* taking queued tasks and the calling thread keeps running: weak fairness
\* of NextSummarize, with its enabling condition written out
SpecSummarizeFair ==
    SpecSummarize /\ (<>[]SummarizeCanStep => []<><<NextSummarize>>_vars)

(***************************************************************************)
(* The grouping study: the batches summarize_prs_in_memory builds from up  *)
(* to MaxPrs PRs, among them repeated labels, a label spelled like the     *)
(* sentinel, and a missing source_repo.                                    *)
(***************************************************************************)
GroupWorld ==
    { PR("r1", 1, <<"A", "B">>, "r1"), PR("r1", 2, <<>>, "r1"),
      PR("r1", 3, <<"unlabeled">>, "r1"), PR("r1", 4, <<"B", "B">>, "r1"),
      PR("r2", 1, <<"A">>, "r2"), PR("r2", 2, <<>>, "r2"),
      PR("r9", 1, <<"A">>, ""), PR("r9", 2, <<>>, "") }

InitGroup ==
    /\ host = [r \in Repos |-> <<>>]
    /\ fetch = FetchIdle
    /\ requested = <<>>
    /\ llm = "menu"
    /\ calls = <<>>
    /\ futures = <<>>
    /\ api = ApiOff
    /\ \E prs \in OrderedLists(GroupWorld, MaxPrs) :
           sum = [SumIdle EXCEPT !.pc = "enter", !.prs = prs]

NextGroup == SummarizeStart

SpecGroup == InitGroup /\ [][NextGroup]_vars

(***************************************************************************)
(* The pool study: the worker threads of one summarize_prs_in_memory call  *)
(* on a PR of up to PoolTasks labels, so of more batches than the pool has *)
(* workers, every LLM call succeeding.  The as_completed loop of the main  *)
(* thread, which no worker reads, is left out.                             *)
(***************************************************************************)
PoolLabels ==
    <<"L01", "L02", "L03", "L04", "L05", "L06", "L07", "L08", "L09", "L10",
      "L11", "L12", "L13">>

InitPool ==
    /\ host = [r \in Repos |-> <<>>]
    /\ fetch = FetchIdle
    /\ requested = <<>>
    /\ llm = "one"
    /\ calls = <<>>
    /\ futures = <<>>
    /\ api = ApiOff
    /\ \E n \in {2, PoolTasks} :
           sum = [SumIdle EXCEPT !.pc = "enter",
                     !.prs = <<PR("r1", 1, SubSeq(PoolLabels, 1, n), "r1")>>]

NextPool ==
    \/ SummarizeStart
    \/ \E t \in DOMAIN futures : WorkerStart(t)
    \/ \E t \in DOMAIN futures : LabelAttempt(t)
    \/ \E t \in DOMAIN futures : BatchFinish(t)

SpecPool == InitPool /\ [][NextPool]_vars

(***************************************************************************)
(* backend/api.py: generate_summary                                        *)
(***************************************************************************)
\* "not data.get(f)": the field is absent or null, or an empty string or
\* list, or the number 0
Falsy(v) ==
    \/ v.type = "null"
    \/ v.type \in {"str", "list"} /\ Len(v.val) = 0
    \/ v.type = "int" /\ v.val = 0

required_fields ==
    <<"repos", "year", "github_username", "github_token", "role_requirements">>

Digits == <<"0", "1", "2", "3", "4", "5", "6", "7", "8", "9">>

IsDigit(c) == \E d \in DOMAIN Digits : Digits[d] = c

DigitValue(c) == (CHOOSE d \in DOMAIN Digits : Digits[d] = c) - 1

RECURSIVE DecimalValue(_)
DecimalValue(chars) ==
    IF chars = <<>> THEN 0
    ELSE 10 * DecimalValue(SubSeq(chars, 1, Len(chars) - 1))
         + DigitValue(chars[Len(chars)])

\* int(data["year"]): the number itself; the value of a string of digits;
\* ValueError for another string, TypeError for a list
IntOf(v) ==
    IF v.type = "int" THEN [error |-> "", val |-> v.val]
    ELSE IF v.type = "str"
    THEN IF \A i \in DOMAIN v.val : IsDigit(v.val[i])
         THEN [error |-> "", val |-> DecimalValue(v.val)]
         ELSE [error |-> "ValueError", val |-> 0]
    ELSE [error |-> "TypeError", val |-> 0]

Response(status, kind, where, repo, body) ==
    [status |-> status, kind |-> kind, where |-> where, repo |-> repo, body |-> body]

Respond(a, response) == [a EXCEPT !.pc = "responded", !.response = response]

\* the request is parsed and validated and the secrets are loaded: an
\* error response, or the fetch loop is reached
AfterValidation(a) ==
    LET missing == {i \in DOMAIN required_fields : Falsy(a.data[required_fields[i]])}
        year == IntOf(a.data.year)
    IN  IF ~a.json
        THEN Respond(a, Response(400, "error", "json", "", <<>>))
        ELSE IF missing # {}
        THEN Respond(a, Response(400, "error", "missing", "",
                                 [i \in missing |-> required_fields[i]]))
        ELSE IF a.data.repos.type # "list" \/ Len(a.data.repos.val) = 0
        THEN Respond(a, Response(400, "error", "repos", "", <<>>))
        ELSE IF year.error = "ValueError"
        THEN Respond(a, Response(400, "error", "year", "", <<>>))
        ELSE IF year.error = "TypeError"
        THEN Respond(a, Response(500, "error", "year", "", <<>>))
        ELSE IF ~a.secrets
        THEN Respond(a, Response(400, "error", "secrets", "", <<>>))
        ELSE [a EXCEPT !.pc = "fetching", !.repos = a.data.repos.val,
                       !.year = year.val, !.idx = 1]

ApiBegin ==
    /\ api.pc = "start"
    /\ api' = AfterValidation(api)
    /\ UNCHANGED <<host, fetch, requested, llm, calls, sum, futures>>

\* "for repo in repos": fetch_merged_prs is called for the next repository
ApiFetchCall ==
    /\ api.pc = "fetching"
    /\ api.idx <= Len(api.repos)
    /\ fetch' = FetchFrame(api.data.github_username.val, api.repos[api.idx], api.year)
    /\ requested' = <<>>
    /\ api' = [api EXCEPT !.pc = "in_fetch"]
    /\ UNCHANGED <<host, llm, calls, sum, futures>>

\* fetch_merged_prs returned repo_prs: "if repo_prs: all_prs.extend(...)"
ApiFetchReturned ==
    /\ api.pc = "in_fetch"
    /\ fetch.pc = "returned"
    /\ api' = [api EXCEPT
                  !.pc = "fetching",
                  !.idx = @ + 1,
                  !.all_prs = @ \o fetch.all_prs,
                  !.repos_with_prs = IF fetch.all_prs # <<>>
                                     THEN Append(@, fetch.repo) ELSE @,
                  !.fetched = Append(@, [repo |-> fetch.repo, raised |-> FALSE,
                                         found |-> Len(fetch.all_prs)])]
    /\ fetch' = FetchIdle
    /\ requested' = <<>>
    /\ UNCHANGED <<host, llm, calls, sum, futures>>

\* a slip that logs the failure and goes on to the next repository
OnFetchErrorContinue(a, repo) == [a EXCEPT !.pc = "fetching", !.idx = @ + 1]

\* "except Exception as e: return jsonify({"error": f"Error fetching PRs
\* from {repo}: ..."}), 500"
OnFetchError(a, repo) == Respond(a, Response(500, "error", "fetch", repo, <<>>))

\* fetch_merged_prs raised
ApiFetchRaised ==
    /\ api.pc = "in_fetch"
    /\ fetch.pc = "raised"
    /\ api' = [OnFetchError(api, api.repos[api.idx]) EXCEPT
                  !.fetched = Append(@, [repo |-> fetch.repo, raised |-> TRUE,
                                         found |-> 0])]
    /\ UNCHANGED <<host, fetch, requested, llm, calls, sum, futures>>

\* a slip that summarizes whatever was fetched, even nothing
ShouldSummarizeAlways(all_prs) == TRUE

\* the negation of "if not all_prs"
ShouldSummarize(all_prs) == all_prs # <<>>

\* the loop is over: the no-PRs document is the answer, or
\* summarize_prs_in_memory is called with all_prs
ApiAfterFetch ==
    /\ api.pc = "fetching"
    /\ api.idx > Len(api.repos)
    /\ IF ShouldSummarize(api.all_prs)
       THEN /\ api' = [api EXCEPT !.pc = "summarizing"]
            /\ sum' = [SumIdle EXCEPT !.pc = "enter", !.prs = api.all_prs]
       ELSE /\ api' = Respond(api, Response(200, "no_prs", "", "", <<>>))
            /\ UNCHANGED sum
    /\ UNCHANGED <<host, fetch, requested, llm, calls, futures>>

\* summarize_prs_in_memory returned the summary, or raised
ApiSummarized ==
    /\ api.pc = "summarizing"
    /\ sum.pc \in {"returned", "raised"}
    /\ api' = IF sum.pc = "returned"
              THEN Respond(api, Response(200, "summary", "", "", sum.document))
              ELSE Respond(api, Response(500, "error", "summarize", "", sum.error))
    /\ UNCHANGED <<host, fetch, requested, llm, calls, sum, futures>>

(***************************************************************************)
(* The whole request: generate_summary on any request of a short list,     *)
(* valid or not, against two small repositories.                           *)
(***************************************************************************)
Chars(year) == IF year = 2025 THEN <<"2", "0", "2", "5">> ELSE <<"a", "b", "c">>

RequestData(repos, year, username, token, role) ==
    [repos |-> repos, year |-> year, github_username |-> username,
     github_token |-> token, role_requirements |-> role]

GoodRepos == Json("list", <<"r1">>)
GoodYear == Json("int", Year)
GoodUser == Json("str", Username)
GoodToken == Json("str", <<"t">>)
GoodRole == Json("str", <<"q">>)

\* requests that pass validation
ValidRequests ==
    { RequestData(Json("list", repos), GoodYear, GoodUser, GoodToken, GoodRole) :
        repos \in {<<"r1">>, <<"r1", "r2">>, <<"r2", "r1">>} }
    \cup { RequestData(GoodRepos, Json("str", Chars(Year)), GoodUser, GoodToken, GoodRole) }

\* requests with one field absent or malformed
BrokenRequests ==
    { RequestData(repos, GoodYear, GoodUser, GoodToken, GoodRole) :
        repos \in {Null, Json("list", <<>>), Json("str", <<"r", "1">>)} }
    \cup { RequestData(GoodRepos, year, GoodUser, GoodToken, GoodRole) :
        year \in {Null, Json("int", 0), Json("str", Chars(0)), Json("list", <<Year>>)} }
    \cup { RequestData(GoodRepos, GoodYear, Null, GoodToken, GoodRole),
           RequestData(GoodRepos, GoodYear, GoodUser, Json("str", <<>>), GoodRole),
           RequestData(GoodRepos, GoodYear, GoodUser, GoodToken, Null),
           RequestData(Null, Null, Null, Null, Null) }

\* the closed PRs of the two repositories: in r1 a PR of the user merged
\* before the year and one merged in the year under two labels; in r2 an
\* unlabeled PR of the user merged in the year and another author's PR
ApiWorld(repo) ==
    IF repo = "r1"
    THEN { RawItem(repo, 1, <<<<"a", "L">>>>, Stamp(Year - 1, 12, 31, 23, 59, 59), <<>>),
           RawItem(repo, 2, <<<<"a", "L">>>>, Stamp(Year, 1, 1, 0, 0, 0), <<"A", "B">>) }
    ELSE { RawItem(repo, 3, <<<<"A", "L">>>>, Stamp(Year, 12, 31, 23, 59, 59), <<>>),
           RawItem(repo, 5, <<<<"b", "o">>>>, Stamp(Year, 6, 15, 12, 0, 0), <<"A">>) }

Init ==
    /\ \E p1 \in Pagings(ApiWorld("r1"), MaxListing),
          p2 \in Pagings(ApiWorld("r2"), MaxListing) :
           host = [r \in Repos |-> IF r = "r1" THEN p1 ELSE p2]
    /\ fetch = FetchIdle
    /\ requested = <<>>
    /\ llm = "menu"
    /\ calls = <<>>
    /\ sum = SumIdle
    /\ futures = <<>>
    /\ \E data \in ValidRequests \cup BrokenRequests, json \in BOOLEAN, secrets \in BOOLEAN :
           /\ json \/ data = RequestData(GoodRepos, GoodYear, GoodUser, GoodToken, GoodRole)
           /\ secrets \/ data = RequestData(GoodRepos, GoodYear, GoodUser, GoodToken, GoodRole)
           /\ api = [ApiOff EXCEPT !.pc = "start", !.json = json, !.data = data,
                                   !.secrets = secrets]

Next ==
    \/ ApiBegin
    \/ ApiFetchCall
    \/ FetchHttpError
    \/ FetchEmptyPage
    \/ FetchPage
    \/ ApiFetchReturned
    \/ ApiFetchRaised
    \/ ApiAfterFetch
    \/ SummarizeStart
    \/ \E t \in DOMAIN futures : WorkerStart(t)
    \/ \E t \in DOMAIN futures : LabelAttempt(t)
    \/ \E t \in DOMAIN futures : LabelWake(t)
    \/ \E t \in DOMAIN futures : LabelRaise(t)
    \/ \E t \in DOMAIN futures : BatchFinish(t)
    \/ \E t \in DOMAIN futures : Collect(t)
    \/ SumUnwind
    \/ Assemble
    \/ ApiSummarized

Spec == Init /\ [][Next]_vars

(***************************************************************************)
(* Claims about fetch_merged_prs (checked under SpecFetch).                *)
(***************************************************************************)
Range(s) == {s[i] : i \in DOMAIN s}

\* the raw items on the pages of a listing
ItemsOf(pages) == UNION {Range(pages[p]) : p \in DOMAIN pages}

\* the three tests in the claim's own terms.  Timestamps have whole seconds,
\* so year-01-01 00:00:00 <= t <= year-12-31 23:59:59 says that t's year
\* field is the year.
WasMerged(raw) == Len(raw.merged_at) > 0
ByUser(raw, username) ==
    /\ Len(raw.user) = 1
    /\ Len(raw.user[1]) = Len(username)
    /\ \A i \in DOMAIN username : LowerChar(raw.user[1][i]) = LowerChar(username[i])
InYear(raw, year) == raw.merged_at[1] = year
PassesFilters(raw, username, year) ==
    WasMerged(raw) /\ ByUser(raw, username) /\ InYear(raw, year)

\* C1: at every point of a fetch_merged_prs call, each PullRequest in
\* all_prs (so each one returned) comes from an item that was merged, whose
\* author login equals username ignoring case and whose merge time lies in
\* [year-01-01 00:00:00, year-12-31 23:59:59]; no item of the listing that
\* fails one of the three tests has its PullRequest in the list.
C1_FetchedPrsPassFilters ==
    /\ \A i \in DOMAIN fetch.all_prs :
          \E raw \in ItemsOf(host[fetch.repo]) :
              /\ fetch.all_prs[i] = PullRequest(raw, fetch.repo)
              /\ PassesFilters(raw, Username, Year)
    /\ \A raw \in ItemsOf(host[fetch.repo]) :
          ~PassesFilters(raw, Username, Year)
              => PullRequest(raw, fetch.repo) \notin Range(fetch.all_prs)

\* a call returned two PRs from a listing that also held an item of another
\* author and an item of the user merged one second after the year's end
C1_Witness ==
    /\ fetch.pc = "returned"
    /\ Len(fetch.all_prs) = 2
    /\ \E b, d \in ItemsOf(host[fetch.repo]) :
          /\ WasMerged(b) /\ ~ByUser(b, Username)
          /\ WasMerged(d) /\ ByUser(d, Username) /\ d.merged_at[1] > Year

\* the PullRequests of a list without their source_repo, as the legacy
\* script's dicts
AsLegacyDicts(prs) ==
    [i \in DOMAIN prs |-> [url |-> prs[i].url, merged_at |-> prs[i].merged_at,
                           labels |-> prs[i].labels]]

\* C10: for every listing, in any order of items, a fetch_merged_prs call
\* that returns has collected every item that lies on a page before the
\* first empty page and passes the merged, author and year filters: the
\* list the same loop returns with the early exit disabled.
C10_EarlyExitChangesNothing ==
    fetch.pc = "returned"
        => AsLegacyDicts(fetch.all_prs)
             = legacy_fetch_merged_prs(host[fetch.repo], Username)


(***************************************************************************)
(* Claims about summarize_label (checked under SpecLabel).                 *)
(***************************************************************************)
\* the URLs a response cites
Cites(bullets) ==
    UNION { Range(bullets[i].pr_citations) : i \in DOMAIN bullets }

\* the last reply received parsed as a SummaryResponse and cites a URL that
\* is not among the call's PRs
LastReplyCitesForeign(c) ==
    /\ c.n_calls > 0
    /\ c.reply.kind = "json"
    /\ ~(Cites(c.reply.bullets) \subseteq Range(c.pr_urls))

\* C2: every citation URL of a SummaryResponse that summarize_label returns
\* is the URL of one of the PRs passed to that call; an attempt whose parsed
\* response cites another URL is not returned: it is a failed attempt (the
\* recorded error is the citation error), followed by a retry while
\* attempts are left and by the terminal error when it was the last one.
C2_CitationsFromBatch ==
    \A t \in DOMAIN calls :
        LET c == calls[t] IN
        /\ c.pc = "returned" => Cites(c.summary) \subseteq Range(c.pr_urls)
        /\ LastReplyCitesForeign(c) =>
              /\ c.pc \in {"sleep", "loop", "raised"}
              /\ c.summary = <<>>
              /\ c.last_error = "citation"
              /\ c.n_calls < c.max_retries
                    => c.pc = "sleep" \/ (c.pc = "loop" /\ c.attempt < c.max_retries)
              /\ c.n_calls >= c.max_retries
                    => c.pc = "raised" \/ (c.pc = "loop" /\ c.attempt >= c.max_retries)

\* a call returned a response citing one of its PRs on the attempt after
\* one that was rejected for a foreign citation
C2_Witness ==
    \E t \in DOMAIN calls :
        /\ calls[t].pc = "returned"
        /\ calls[t].last_error = "citation"
        /\ calls[t].n_calls = 2
        /\ Cites(calls[t].summary) # {}

\* w is 1, 2, 4, ...: it starts at 1 and each wait doubles the one before
Doubling(w) ==
    \A k \in DOMAIN w : w[k] = IF k = 1 THEN 1 ELSE 2 * w[k - 1]

\* C3: a summarize_label call that raises the terminal error has made
\* exactly max_retries LLM calls, and its waits were 1, 2, 4, ... between
\* consecutive attempts: max_retries - 1 of them (none when max_retries is
\* 0), no wait after the final failed attempt; until then the waits made so
\* far are one per failed attempt that a further attempt follows.
C3_ExactRetriesDoublingWaits ==
    \A t \in DOMAIN calls :
        LET c == calls[t] IN
        /\ Doubling(c.waits)
        /\ c.n_calls <= c.max_retries
        /\ c.pc = "raised" =>
              /\ c.n_calls = c.max_retries
              /\ DOMAIN c.waits = 1..(c.max_retries - 1)

\* a call with max_retries = 4 failed four times, waiting 1, 2 and 4
C3_Witness ==
    \E t \in DOMAIN calls :
        /\ calls[t].pc = "raised"
        /\ calls[t].max_retries = 4
        /\ calls[t].n_calls = 4
        /\ calls[t].waits = <<1, 2, 4>>

(***************************************************************************)
(* Claims about the batches (checked under SpecGroup).                     *)
(***************************************************************************)
\* the tasks whose batch holds pr
TasksHolding(pr) == {t \in DOMAIN sum.tasks : pr \in Range(sum.tasks[t].prs)}

\* C4: in the batches built by summarize_prs_in_memory, a PR with a
\* non-empty label set L is in the batch keyed l of its own repository for
\* exactly the labels l in L and in no other batch; a PR with no labels is
\* in exactly one batch, the one keyed "unlabeled" of its repository.  (No
\* two batches share a key.)
C4_BatchMembership ==
    sum.pc = "collecting" =>
        /\ \A t, u \in DOMAIN sum.tasks :
              (sum.tasks[t].repo = sum.tasks[u].repo
                  /\ sum.tasks[t].label = sum.tasks[u].label) => t = u
        /\ \A pr \in Range(sum.prs) :
              LET repo == IF pr.source_repo = "" THEN "unknown" ELSE pr.source_repo
                  keys == {<<sum.tasks[t].repo, sum.tasks[t].label>> : t \in TasksHolding(pr)}
              IN  IF Len(pr.labels) > 0
                  THEN keys = {<<repo, l>> : l \in Range(pr.labels)}
                  ELSE keys = {<<repo, "unlabeled">>} /\ Cardinality(TasksHolding(pr)) = 1

\* the batches of a PR labelled A and B and of an unlabeled PR of the same
\* repository: three batches, the first PR in two of them
C4_Witness ==
    /\ sum.pc = "collecting"
    /\ Len(sum.tasks) = 3
    /\ \E pr, qr \in Range(sum.prs) :
          /\ Range(pr.labels) = {"A", "B"}
          /\ Cardinality(TasksHolding(pr)) = 2
          /\ qr.labels = <<>>
          /\ qr.source_repo = pr.source_repo
          /\ Cardinality(TasksHolding(qr)) = 1

(***************************************************************************)
(* Claims about the dispatch and the document (checked under               *)
(* SpecSummarize).                                                         *)
(***************************************************************************)
\* the document written from the batches and their responses alone: the
\* repositories in ascending order, under each its labels in ascending
\* order, under each label the formatted response of that batch
ResponseOf(repo, label) ==
    calls[CHOOSE t \in DOMAIN sum.tasks :
              sum.tasks[t].repo = repo /\ sum.tasks[t].label = label].summary

LabelsIn(repo) == {sum.tasks[t].label : t \in {u \in DOMAIN sum.tasks : sum.tasks[u].repo = repo}}

DocumentOfBatches ==
    LET repos == Sorted({sum.tasks[t].repo : t \in DOMAIN sum.tasks})
    IN  Flatten([r \in DOMAIN repos |->
          << <<"##", repos[r]>>, <<>> >>
          \o LET labels == Sorted(LabelsIn(repos[r]))
             IN  Flatten([l \in DOMAIN labels |->
                    << <<"###", labels[l]>>, <<>> >>
                    \o format_summary_with_citations(ResponseOf(repos[r], labels[l]))
                    \o << <<>> >>])])

\* C6: the document summarize_prs_in_memory returns is determined by the
\* batches and their responses: it is the same for every order in which the
\* batches were submitted and every order in which their futures completed
\* and were collected.
C6_DocumentIgnoresOrder ==
    sum.pc = "returned" => sum.document = DocumentOfBatches

\* a document was returned after the batches were submitted and collected
\* in orders that are both not the alphabetical one
C6_Witness ==
    /\ sum.pc = "returned"
    /\ Len(sum.tasks) = 3
    /\ sum.tasks[1].repo = "unknown"
    /\ sum.summaries[1].key = "r1"
    /\ sum.summaries[1].value[1].key = "B"

\* the lines of doc below its "## repo" heading, up to the next "##" heading
RepoSection(doc, repo) ==
    LET at   == CHOOSE i \in DOMAIN doc : doc[i] = <<"##", repo>>
        next == {j \in DOMAIN doc : j > at /\ Len(doc[j]) = 2 /\ doc[j][1] = "##"}
        to   == IF next = {} THEN Len(doc)
                ELSE (CHOOSE j \in next : \A k \in next : j <= k) - 1
    IN  SubSeq(doc, at + 1, to)

IsHeading(line) == Len(line) = 2 /\ line[1] \in {"##", "###"}
IsBullet(line) == Len(line) = 2 /\ line[1] = "- **"

\* how many bullets stand below the heading at line h of sec, before the
\* next heading
BulletsBelow(sec, h) ==
    LET next == {j \in DOMAIN sec : j > h /\ IsHeading(sec[j])}
        to   == IF next = {} THEN Len(sec)
                ELSE (CHOOSE j \in next : \A k \in next : j <= k) - 1
    IN  Cardinality({j \in (h + 1)..to : IsBullet(sec[j])})

RECURSIVE SumOver(_, _)
SumOver(f, S) ==
    IF S = {} THEN 0
    ELSE LET x == CHOOSE y \in S : TRUE IN f[x] + SumOver(f, S \ {x})

\* the lines of sec that are the heading of career area a
AreaHeadings(sec, a) == {h \in DOMAIN sec : sec[h] = <<"###", a>>}

\* the bullets of task t's response that report career area a
AreaBullets(t, a) ==
    {i \in DOMAIN calls[t].summary : calls[t].summary[i].career_area = a}

TasksOf(repo) == {t \in DOMAIN sum.tasks : sum.tasks[t].repo = repo}

\* C7 as stated: in the returned document the batch label is discarded;
\* within one repository a career-area heading occurs at most once, and all
\* the bullets of that repository that report the area stand below it.
C7_OneAreaSectionPerRepo ==
    sum.pc = "returned" =>
        \A repo \in {sum.tasks[t].repo : t \in DOMAIN sum.tasks} : \A a \in Areas :
            LET sec == RepoSection(sum.document, repo)
                reported == SumOver([t \in TasksOf(repo) |-> Cardinality(AreaBullets(t, a))],
                                    TasksOf(repo))
            IN  /\ Cardinality(AreaHeadings(sec, a)) <= 1
                /\ \A h \in AreaHeadings(sec, a) : BulletsBelow(sec, h) = reported

\* C7 as amended: the batch label is kept.  Within one repository every
\* batch has its own "### label" section, and a career-area heading occurs
\* once for each label batch of the repository whose response reports the
\* area; the bullets below the headings of an area are, in number, the
\* bullets of those batches that report it, so within one batch all bullets
\* of one area stand together below a single heading.
C7_OneAreaSectionPerBatch ==
    sum.pc = "returned" =>
        \A repo \in {sum.tasks[t].repo : t \in DOMAIN sum.tasks} :
            LET sec == RepoSection(sum.document, repo) IN
            /\ \A l \in LabelsIn(repo) :
                  Cardinality({h \in DOMAIN sec : sec[h] = <<"###", l>>}) = 1
            /\ \A a \in Areas :
                  LET reporting == {t \in TasksOf(repo) : AreaBullets(t, a) # {}}
                      heads == AreaHeadings(sec, a)
                  IN  /\ Cardinality(heads) = Cardinality(reporting)
                      /\ SumOver([h \in heads |-> BulletsBelow(sec, h)], heads)
                           = SumOver([t \in reporting |-> Cardinality(AreaBullets(t, a))],
                                     reporting)

\* a document in which two label batches of r1 each reported Impact, one of
\* them in two bullets that are not neighbours in its response
C7_Witness ==
    /\ sum.pc = "returned"
    /\ \E t, u \in TasksOf("r1") :
          /\ t # u
          /\ Cardinality(AreaBullets(t, "Impact")) = 2
          /\ Cardinality(AreaBullets(u, "Impact")) = 1
    /\ Cardinality(AreaHeadings(RepoSection(sum.document, "r1"), "Impact")) = 2

(***************************************************************************)
(* Claims about generate_summary, checked under Spec                       *)
(***************************************************************************)
\* the batches whose summarize_label call ended with its terminal error
Exhausted ==
    {t \in DOMAIN futures :
        \/ futures[t].state = "failed"
        \/ futures[t].state = "running" /\ calls[t].pc = "raised"}

\* C5: once one batch has exhausted its retries, summarize_prs_in_memory
\* never returns: it is still collecting, or unwinding, or has raised, and
\* it built no document, whatever the other batches produced; and the
\* response of generate_summary, once sent, is the 500 error of the
\* summarization stage and carries no document.
C5_BatchFailureFailsAll ==
    Exhausted # {} =>
        /\ sum.pc \in {"collecting", "unwinding", "raised"}
        /\ sum.document = <<>>
        /\ api.pc \in {"summarizing", "responded"}
        /\ api.pc = "responded" =>
              /\ sum.pc = "raised"
              /\ api.response = Response(500, "error", "summarize", "", sum.error)

\* the request ended in the summarization error although another batch had
\* succeeded and its section had been stored in summaries
C5_Witness ==
    /\ api.pc = "responded"
    /\ api.response.status = 500
    /\ api.response.where = "summarize"
    /\ \E t, u \in DOMAIN futures :
          /\ futures[t].state = "failed" /\ futures[t].collected
          /\ futures[u].state = "done" /\ futures[u].collected
    /\ sum.summaries # <<>>

\* every repository of the request was fetched, none raised, none gave a PR
AllFetchedNoneFound ==
    /\ api.repos # <<>>
    /\ Len(api.fetched) = Len(api.repos)
    /\ \A i \in DOMAIN api.fetched :
          /\ api.fetched[i].repo = api.repos[i]
          /\ ~api.fetched[i].raised
          /\ api.fetched[i].found = 0

\* C8: when every requested repository was fetched without error and none
\* yielded a PR, summarize_prs_in_memory is never entered, no executor
\* task and no summarize_label call exists, and the response, once sent, is
\* the 200 no-PRs-found document.
C8_NoPrsIsSuccessWithoutLlm ==
    AllFetchedNoneFound =>
        /\ sum = SumIdle
        /\ futures = <<>>
        /\ calls = <<>>
        /\ api.pc \in {"fetching", "responded"}
        /\ api.pc = "responded" => api.response = Response(200, "no_prs", "", "", <<>>)

\* two repositories were requested, both listings hold closed PRs, and the
\* request ended with the no-PRs-found document
C8_Witness ==
    /\ AllFetchedNoneFound
    /\ Len(api.repos) = 2
    /\ \A r \in Repos : ItemsOf(host[r]) # {}
    /\ api.pc = "responded"
    /\ api.response.status = 200
    /\ api.response.kind = "no_prs"

\* C9: a fetch_merged_prs call that ended by an HTTP failure hands back no
\* PR; in generate_summary the failed repository is the last one fetched,
\* the request ends at once with the 500 error that names it, and
\* summarize_prs_in_memory is never entered, so no executor task and no
\* summarize_label call exists, whatever earlier repositories gave.
C9_FetchFailureAborts ==
    /\ fetch.pc = "raised" =>
          /\ fetch.all_prs = <<>>
          /\ api.pc \in {"in_fetch", "responded"}
          /\ fetch.repo = api.repos[api.idx]
          /\ Len(api.fetched) \in {api.idx - 1, api.idx}
          /\ sum = SumIdle /\ futures = <<>> /\ calls = <<>>
    /\ \A i \in DOMAIN api.fetched :
          api.fetched[i].raised =>
              /\ i = Len(api.fetched)
              /\ fetch.pc = "raised"
              /\ api.pc = "responded"
              /\ api.response = Response(500, "error", "fetch", api.fetched[i].repo, <<>>)
              /\ api.fetched[i].repo = api.repos[i]
    /\ api.pc = "responded" /\ api.response.where = "fetch" =>
          /\ fetch.pc = "raised"
          /\ api.fetched # <<>>
          /\ api.fetched[Len(api.fetched)].raised

\* the first repository gave a PR; the fetch of the second failed on its
\* second page, after a first page that held a PR of the user merged in the
\* year
C9_Witness ==
    /\ api.pc = "responded"
    /\ api.response.where = "fetch"
    /\ Len(api.repos) = 2
    /\ Len(api.fetched) = 2
    /\ api.fetched[1].found > 0
    /\ api.all_prs # <<>>
    /\ requested = <<1, 2>>
    /\ \E raw \in Range(PageOf(host[fetch.repo], 1)) :
          PassesFilters(raw, api.data.github_username.val, api.year)

(***************************************************************************)
(* Claims about the thread pool                                            *)
(***************************************************************************)
\* the batches a worker thread is busy with: process_batch was entered and
\* has not returned or raised
InProgress == {t \in DOMAIN futures : futures[t].state = "running"}

\* C11: at every moment of summarize_prs_in_memory the number of batches
\* being processed by a worker, so the number of summarize_label calls in
\* progress, is at most the smaller of the number of batches and 10.
C11_AtMostTenInProgress ==
    /\ Cardinality(InProgress) <= Len(sum.tasks)
    /\ Cardinality(InProgress) <= 10
    /\ \A t \in InProgress : calls[t].pc \in {"loop", "sleep", "returned", "raised"}

\* eleven batches were submitted; ten are in progress and the eleventh
\* waits in the queue
C11_Witness ==
    /\ Len(sum.tasks) = 11
    /\ Cardinality(InProgress) = 10
    /\ futures[11].state = "pending"

\* every batch succeeded and its future was taken from as_completed
AllCollected ==
    /\ futures # <<>>
    /\ \A t \in DOMAIN futures : futures[t].state = "done" /\ futures[t].collected

\* the (repo, label) keys under which summaries holds an entry
StoredKeys ==
    UNION {{<<sum.summaries[i].key, sum.summaries[i].value[j].key>> :
               j \in DOMAIN sum.summaries[i].value} : i \in DOMAIN sum.summaries}

StoredPositions ==
    UNION {{<<i, j>> : j \in DOMAIN sum.summaries[i].value} : i \in DOMAIN sum.summaries}

\* C12: once every batch has succeeded and been collected, summaries holds
\* one entry per (repo, label) batch and no other: the keys stored are the
\* keys of the tasks, none twice, and the text under a batch's key is
\* format_summary_with_citations of the response that this batch's own
\* summarize_label call returned, in whatever order the futures completed.
C12_ResultsKeyedByBatch ==
    AllCollected =>
        /\ StoredKeys = {<<sum.tasks[t].repo, sum.tasks[t].label>> : t \in DOMAIN sum.tasks}
        /\ Cardinality(StoredPositions) = Len(sum.tasks)
        /\ Cardinality(StoredKeys) = Len(sum.tasks)
        /\ \A t \in DOMAIN sum.tasks :
              /\ futures[t].result =
                    <<sum.tasks[t].repo, sum.tasks[t].label,
                      format_summary_with_citations(calls[t].summary)>>
              /\ HasKey(sum.summaries, sum.tasks[t].repo)
              /\ HasKey(DictGet(sum.summaries, sum.tasks[t].repo), sum.tasks[t].label)
              /\ DictGet(DictGet(sum.summaries, sum.tasks[t].repo), sum.tasks[t].label)
                    = format_summary_with_citations(calls[t].summary)

\* three batches succeeded; the two of r1 got different responses and the
\* second of them was collected before the first
C12_Witness ==
    /\ AllCollected
    /\ Len(sum.tasks) = 3
    /\ sum.tasks[1].repo = "r1" /\ sum.tasks[2].repo = "r1"
    /\ calls[1].summary # calls[2].summary
    /\ DictGet(sum.summaries, "r1")[1].key = sum.tasks[2].label

\* the attempts of call c that have failed so far
FailedAttempts(c) == IF c.pc = "returned" THEN c.n_calls - 1 ELSE c.n_calls

\* the summarize_label calls that exist: entered and not yet left
LiveCalls == {t \in DOMAIN calls : calls[t].pc \in {"loop", "sleep", "returned", "raised"}}

\* C13: in every interleaving of the workers each batch's summarize_label
\* call has the whole budget of max_retries = 3 attempts to itself: it makes
\* at most 3 LLM calls, it raises only after 3 failed attempts of its own,
\* and it has slept 1 and then 2 seconds after its own first and second
\* failure, whatever the other batches have done.
C13_OwnRetryBudget ==
    \A t \in LiveCalls :
        LET c == calls[t] IN
        /\ c.max_retries = 3
        /\ c.n_calls <= 3
        /\ c.pc = "raised" => c.n_calls = 3
        /\ c.pc = "loop" => c.attempt = c.n_calls
        /\ c.pc = "sleep" => c.attempt = c.n_calls - 1
        /\ c.waits = [k \in 1..(IF FailedAttempts(c) < 2 THEN FailedAttempts(c) ELSE 2)
                        |-> 2 ^ (k - 1)]

\* one batch has exhausted its three attempts and failed, and another
\* batch, which failed twice, has succeeded at its third attempt
C13_Witness ==
    \E t, u \in DOMAIN futures :
        /\ futures[t].state = "failed"
        /\ u \in LiveCalls
        /\ calls[u].pc = "returned"
        /\ calls[u].n_calls = 3
        /\ calls[u].waits = <<1, 2>>

(***************************************************************************)
(* Claims about the validation in generate_summary, checked under Spec     *)
(***************************************************************************)
\* the request body is JSON but a required field is absent, or repos is not
\* a non-empty list, or year is a string that is no integer or is no
\* string and no number at all
MissingField(data) == \E i \in DOMAIN required_fields : data[required_fields[i]].type = "null"
ReposNotNonEmptyList(data) ==
    data.repos.type # "list" \/ Len(data.repos.val) = 0
YearNotAnInteger(data) ==
    \/ data.year.type = "str" /\ \E i \in DOMAIN data.year.val : ~IsDigit(data.year.val[i])
    \/ data.year.type = "list"
InvalidRequest ==
    /\ api.json
    /\ MissingField(api.data) \/ ReposNotNonEmptyList(api.data) \/ YearNotAnInteger(api.data)

\* no fetch_merged_prs call and no summarization was ever started
NothingStarted ==
    /\ fetch = FetchIdle /\ requested = <<>> /\ api.fetched = <<>>
    /\ sum = SumIdle /\ calls = <<>> /\ futures = <<>>

\* C14: a request with a missing required field, a repos value that is not
\* a non-empty list or a year that cannot be parsed as an integer starts no
\* fetch and no summarization, and its response is the validation error
\* (status 400).
C14_InvalidRequestIsValidationError ==
    InvalidRequest =>
        /\ NothingStarted
        /\ api.pc \in {"start", "responded"}
        /\ api.pc = "responded" =>
              api.response.status = 400 /\ api.response.kind = "error"

\* the part of C14 that the code keeps: such a request starts nothing and
\* is answered with an error
C14_InvalidRequestStartsNothing ==
    InvalidRequest =>
        /\ NothingStarted
        /\ api.pc \in {"start", "responded"}
        /\ api.pc = "responded" =>
              api.response.status \in {400, 500} /\ api.response.kind = "error"

(***************************************************************************)
(* Claims about pagination, checked under SpecFetchFair                    *)
(***************************************************************************)
\* the pages asked for so far are 1, 2, 3, ... in this order, none twice;
\* none was asked for after a page that came back empty; the loop is
\* about to ask for the next one, or an empty page has ended it
PagesInOrder ==
    /\ \A i \in DOMAIN requested : requested[i] = i
    /\ \A i \in DOMAIN requested :
          \A j \in 1..(i - 1) : PageOf(host[fetch.repo], j) # <<>>
    /\ fetch.pc = "loop" => fetch.page = Len(requested) + 1
    /\ requested # <<>> /\ PageOf(host[fetch.repo], requested[Len(requested)]) = <<>>
          => fetch.pc \in {"returned", "raised"}

\* C15: fetch_merged_prs requests pages 1, 2, 3, ... in order, each at most
\* once, and stops at the first page that returns zero items; the listing
\* having finitely many non-empty pages and every request returning, the
\* call ends.
C15_PagesInOrderAndFetchEnds ==
    /\ []PagesInOrder
    /\ <>(fetch.pc \in {"returned", "raised"})

\* a call returned at the empty fourth page, every page before it having
\* been non-empty and asked for
C15_Witness ==
    /\ fetch.pc = "returned"
    /\ requested = <<1, 2, 3, 4>>
    /\ PageOf(host[fetch.repo], 4) = <<>>
    /\ \A j \in 1..3 : PageOf(host[fetch.repo], j) # <<>>

(***************************************************************************)
(* Claims about the retry scenarios, checked under SpecLabel               *)
(***************************************************************************)
\* C16: with max_retries = 3, a summarize_label call never makes a fourth
\* LLM call; and when it returns at its third call, so after its first and
\* second attempt failed, what it returns is the response of that third
\* call, and it has slept exactly twice, 1 and then 2 seconds, 3 in all.
C16_ThirdAttemptWins ==
    \A t \in DOMAIN calls :
        LET c == calls[t] IN
        c.max_retries = 3 =>
            /\ c.n_calls <= 3
            /\ c.pc = "returned" /\ c.n_calls = 3 =>
                  /\ c.reply.kind = "json"
                  /\ c.summary = c.reply.bullets
                  /\ c.attempt = 2
                  /\ c.waits = <<1, 2>>
                  /\ c.waits[1] + c.waits[2] = 3
                  /\ c.last_error # "None"

\* a call with max_retries = 3 returned two bullets at its third LLM call,
\* the failure before it having been a transport error
C16_Witness ==
    \E t \in DOMAIN calls :
        /\ calls[t].max_retries = 3
        /\ calls[t].pc = "returned"
        /\ calls[t].n_calls = 3
        /\ calls[t].last_error = "transport"
        /\ Len(calls[t].summary) = 2

(***************************************************************************)
(* Claims about the early exit, checked under SpecFetch                    *)
(***************************************************************************)
\* page p of the listing yields no match for the year and holds a PR of the
\* user merged before the year
IsOldPage(p) ==
    LET items == Range(PageOf(host[fetch.repo], p))
    IN  /\ \A raw \in items : ~PassesFilters(raw, fetch.username, fetch.year)
        /\ \E raw \in items :
              /\ WasMerged(raw) /\ ByUser(raw, fetch.username)
              /\ raw.merged_at[1] < fetch.year

\* the call returned although the last page it asked for was not empty
StoppedEarly ==
    /\ fetch.pc = "returned"
    /\ requested # <<>>
    /\ PageOf(host[fetch.repo], requested[Len(requested)]) # <<>>

\* C17 as stated: the early exit waits for one more page: a call stops
\* early only after two old pages in a row, the page after the first of
\* them having been requested.
C17_EarlyExitWaitsOnePage ==
    StoppedEarly =>
        /\ Len(requested) >= 2
        /\ IsOldPage(Len(requested))
        /\ IsOldPage(Len(requested) - 1)

\* C17 as the code has it: the early exit waits for no further page: a call
\* stops early only at an old page, and it stops at the first old page that
\* comes back: no page is ever requested after one.
C17_EarlyExitAtFirstOldPage ==
    /\ StoppedEarly => IsOldPage(Len(requested))
    /\ \A i \in DOMAIN requested :
          IsOldPage(i) => /\ i = Len(requested)
                          /\ fetch.pc \in {"returned", "raised"}

\* page 1 gave a match, page 2 is an old page and the call returned there,
\* leaving a third page with a PR of the user merged in the year unasked
C17_Witness ==
    /\ StoppedEarly
    /\ requested = <<1, 2>>
    /\ Len(fetch.all_prs) = 1
    /\ ~IsOldPage(1)
    /\ IsOldPage(2)
    /\ \E raw \in Range(PageOf(host[fetch.repo], 3)) :
          PassesFilters(raw, fetch.username, fetch.year)

(***************************************************************************)
(* Claims about the returned document, checked under SpecSummarize         *)
(***************************************************************************)
\* the lines of doc that start with the marker m
LinesMarked(doc, m) == {i \in DOMAIN doc : Len(doc[i]) = 2 /\ doc[i][1] = m}

\* summarize_prs_in_memory was given one unlabeled PR of one repository,
\* its only batch made a single LLM call, which returned one bullet citing
\* the PR, and the document was returned
OneUnlabeledPrOneBullet ==
    /\ sum.pc = "returned"
    /\ Len(sum.prs) = 1
    /\ sum.prs[1].labels = <<>>
    /\ sum.prs[1].source_repo # ""
    /\ Len(sum.tasks) = 1
    /\ calls[1].n_calls = 1
    /\ Len(calls[1].summary) = 1
    /\ calls[1].summary[1].pr_citations = <<sum.prs[1].url>>

\* C18 as stated: in that scenario the document holds exactly one
\* repository heading, exactly one heading below it (the career area's)
\* and exactly one bullet, which cites the PR's URL.
C18_OneRepoOneAreaOneBullet ==
    OneUnlabeledPrOneBullet =>
        /\ Cardinality(LinesMarked(sum.document, "##")) = 1
        /\ Cardinality(LinesMarked(sum.document, "###")) = 1
        /\ Cardinality(LinesMarked(sum.document, "- **")) = 1
        /\ {sum.document[i][2] : i \in LinesMarked(sum.document, "  - [")}
              = {sum.prs[1].url}

\* C18 as the code has it: in that scenario the document holds exactly one
\* repository heading, the repository's; below it exactly two headings, the
\* batch's "### unlabeled" and then the career area's; and below that
\* exactly one bullet, with exactly one citation, the PR's URL.
C18_OneRepoOneLabelOneAreaOneBullet ==
    OneUnlabeledPrOneBullet =>
        LET doc == sum.document
            sub == LinesMarked(doc, "###")
        IN  /\ LinesMarked(doc, "##") = {1}
            /\ doc[1] = <<"##", sum.prs[1].source_repo>>
            /\ Cardinality(sub) = 2
            /\ \E l, a \in sub :
                  /\ l < a
                  /\ doc[l] = <<"###", "unlabeled">>
                  /\ doc[a] = <<"###", calls[1].summary[1].career_area>>
                  /\ \A b \in LinesMarked(doc, "- **") : a < b
                  /\ \A c \in LinesMarked(doc, "  - [") : a < c
            /\ Cardinality(LinesMarked(doc, "- **")) = 1
            /\ Cardinality(LinesMarked(doc, "  - [")) = 1
            /\ \A c \in LinesMarked(doc, "  - [") : doc[c][2] = sum.prs[1].url

\* the scenario happened: PR 2 of r1, unlabeled, one call, one bullet
C18_Witness ==
    /\ OneUnlabeledPrOneBullet
    /\ sum.prs[1].url = <<"r1", 2>>
    /\ Cardinality(LinesMarked(sum.document, "###")) = 2

\* C19: the terminal error that leaves a batch's summarize_label call names
\* the batch key repo/label and the number of attempts, and its cause is the
\* error of the last attempt made, whatever the earlier attempts died of;
\* it is this error that the batch's future holds.
C19_TerminalErrorNamesBatchAndLastCause ==
    \A t \in DOMAIN futures :
        /\ (futures[t].state = "running" /\ calls[t].pc = "raised") =>
              /\ calls[t].n_calls = 3
              /\ calls[t].reply.kind # "none"
              /\ calls[t].error =
                    <<[label    |-> <<sum.tasks[t].repo, sum.tasks[t].label>>,
                       attempts |-> 3,
                       cause    |-> AttemptOutcome(calls[t].reply, calls[t].pr_urls)]>>
        /\ futures[t].state = "failed" =>
              /\ Len(futures[t].error) = 1
              /\ futures[t].error[1].label = <<sum.tasks[t].repo, sum.tasks[t].label>>
              /\ futures[t].error[1].attempts = 3
              /\ futures[t].error[1].cause \in {"transport", "citation"}

\* batch r1/A gave up after three attempts, the last of which cited a PR
\* that is not in the batch
C19_Witness ==
    \E t \in DOMAIN futures :
        /\ futures[t].state = "running"
        /\ calls[t].pc = "raised"
        /\ calls[t].label = <<"r1", "A">>
        /\ calls[t].n_calls = 3
        /\ calls[t].reply.kind = "json"
        /\ calls[t].error[1].cause = "citation"

\* the keys of the headings at the lines hs of doc, in the order of the
\* lines
RECURSIVE KeysInOrder(_, _)
KeysInOrder(doc, hs) ==
    IF hs = {} THEN <<>>
    ELSE LET h == CHOOSE x \in hs : \A y \in hs : x <= y
         IN  <<doc[h][2]>> \o KeysInOrder(doc, hs \ {h})

\* each key of the sequence is below the next one in the order of Python's
\* string comparison (by code point, so upper case before lower case)
Ascending(keys) == \A i \in 1..(Len(keys) - 1) : StrLess(keys[i], keys[i + 1])

\* the lines of a repository's section that head a batch's section: the
\* "###" heading right below the repository heading, and each later one
\* that comes after the blank line that closes the batch before it (a
\* career area's heading inside a batch has one blank line before it, or
\* the batch's heading and a blank line)
BatchHeadings(sec) ==
    {h \in LinesMarked(sec, "###") :
        h = 2 \/ (h > 2 /\ sec[h - 1] = <<>> /\ sec[h - 2] = <<>>)}

\* C20: in the returned document the repository headings are the
\* repositories of the batches, each once, in ascending order; and in each
\* repository's section the headings of the batches are the labels of the
\* repository's batches, each once, in ascending order.
C20_SectionsInAscendingOrder ==
    sum.pc = "returned" =>
        LET doc   == sum.document
            repos == KeysInOrder(doc, LinesMarked(doc, "##"))
        IN  /\ Ascending(repos)
            /\ Range(repos) = {sum.tasks[t].repo : t \in DOMAIN sum.tasks}
            /\ \A r \in DOMAIN repos :
                  LET sec    == RepoSection(doc, repos[r])
                      labels == KeysInOrder(sec, BatchHeadings(sec))
                  IN  /\ Ascending(labels)
                      /\ Range(labels) = LabelsIn(repos[r])

\* a document of two repositories was returned; "unknown" was stored before
\* "r1", and label B of r1 before label A
C20_Witness ==
    /\ sum.pc = "returned"
    /\ Len(sum.summaries) = 2
    /\ sum.summaries[1].key = "unknown"
    /\ sum.summaries[2].key = "r1"
    /\ Len(sum.summaries[2].value) = 2
    /\ sum.summaries[2].value[1].key = "B"
    /\ KeysInOrder(sum.document, LinesMarked(sum.document, "##")) = <<"r1", "unknown">>

(***************************************************************************)
(* Further claims about the batches, checked under SpecGroup               *)
(***************************************************************************)
\* C21: whatever PR list summarize_prs_in_memory is given, every task it
\* submits holds at least one PullRequest, and each PullRequest it holds is
\* one of the list; for the empty list it submits no task at all.
C21_NoEmptyBatch ==
    /\ \A t \in DOMAIN sum.tasks :
          /\ Len(sum.tasks[t].prs) >= 1
          /\ Range(sum.tasks[t].prs) \subseteq Range(sum.prs)
    /\ Len(futures) = Len(sum.tasks)
    /\ sum.prs = <<>> => sum.tasks = <<>>

\* two PRs, one labelled and one not, gave a batch "A" and a batch
\* "unlabeled", of one PR each
C21_Witness ==
    /\ sum.pc = "collecting"
    /\ Len(sum.prs) = 2
    /\ Len(futures) = 2
    /\ \E t, u \in DOMAIN sum.tasks :
          /\ sum.tasks[t].label = "A" /\ Len(sum.tasks[t].prs) = 1
          /\ sum.tasks[u].label = "unlabeled" /\ Len(sum.tasks[u].prs) = 1
          /\ sum.tasks[u].prs[1].labels = <<>>

\* the repository a PR belongs to, in the claim's terms
RepoOf(pr) == IF pr.source_repo = "" THEN "unknown" ELSE pr.source_repo

\* C25: every batch (repo, label) holds only PRs whose source_repo is repo
\* ("unknown" standing for the empty source_repo), so every PR is in
\* batches of one repository only, its own, and two PRs of different
\* repositories are never in one batch, even under a label they share.
C25_BatchesNestedByRepo ==
    /\ \A t \in DOMAIN sum.tasks :
          \A pr \in Range(sum.tasks[t].prs) : RepoOf(pr) = sum.tasks[t].repo
    /\ sum.pc = "collecting" =>
          \A pr \in Range(sum.prs) :
              {sum.tasks[t].repo : t \in TasksHolding(pr)} = {RepoOf(pr)}
    /\ \A t \in DOMAIN sum.tasks :
          \A pr, qr \in Range(sum.tasks[t].prs) : RepoOf(pr) = RepoOf(qr)

\* a PR of r1 and a PR with no source_repo, both labelled A, are in two
\* batches keyed A, of r1 and of "unknown"
C25_Witness ==
    /\ sum.pc = "collecting"
    /\ \E pr, qr \in Range(sum.prs) :
          /\ pr.source_repo = "r1" /\ qr.source_repo = ""
          /\ "A" \in Range(pr.labels) /\ "A" \in Range(qr.labels)
          /\ \E t, u \in DOMAIN sum.tasks :
                /\ t # u
                /\ sum.tasks[t].label = "A" /\ sum.tasks[u].label = "A"
                /\ sum.tasks[t].repo = "r1" /\ sum.tasks[u].repo = "unknown"
                /\ pr \in Range(sum.tasks[t].prs)
                /\ qr \in Range(sum.tasks[u].prs)

(***************************************************************************)
(* Claims about what the threads write, checked under SpecSummarize        *)
(***************************************************************************)
\* the batches whose frame or future a step changes
Touched ==
    {t \in DOMAIN futures : calls'[t] # calls[t] \/ futures'[t] # futures[t]}

\* the text stored in summaries d under (repo, label), <<"absent">> if none
StoredUnder(d, repo, label) ==
    IF HasKey(d, repo) /\ HasKey(DictGet(d, repo), label)
    THEN DictGet(DictGet(d, repo), label) ELSE <<"absent">>

\* a step of the running pool: it touches the frame and future of one
\* batch at most; if it is a worker's step (the batch's frame changes) it
\* leaves summaries, and all of the collecting thread's state, alone; and
\* if it changes summaries it is the collecting thread taking one finished
\* future, whose own result it stores under the future's own key, every
\* other entry staying as it was
PoolStep ==
    (futures # <<>> /\ DOMAIN futures' = DOMAIN futures) =>
        /\ Cardinality(Touched) <= 1
        /\ calls' # calls => sum' = sum
        /\ sum'.summaries # sum.summaries =>
              /\ calls' = calls
              /\ \E t \in DOMAIN futures :
                    /\ Touched = {t}
                    /\ futures[t].state = "done"
                    /\ ~futures[t].collected /\ futures'[t].collected
                    /\ futures'[t].result = futures[t].result
                    /\ StoredUnder(sum'.summaries, sum.tasks[t].repo, sum.tasks[t].label)
                          = futures[t].result[3]
                    /\ \A u \in DOMAIN futures \ {t} :
                          StoredUnder(sum'.summaries, sum.tasks[u].repo, sum.tasks[u].label)
                            = StoredUnder(sum.summaries, sum.tasks[u].repo, sum.tasks[u].label)

\* C22: while the batches are processed, no worker writes state of another
\* batch or the shared summaries; a worker only sets its own future, and
\* summaries is written by the collecting thread alone, one future at a
\* time: every step of summarize_prs_in_memory is a PoolStep.
C22_WorkersShareNoState == [][PoolStep]_vars

\* two workers are in the middle of their batches while the collecting
\* thread has already stored the result of a third
C22_Witness ==
    \E t, u, v \in DOMAIN futures :
        /\ t # u
        /\ futures[t].state = "running" /\ calls[t].n_calls >= 1 /\ calls[t].pc = "sleep"
        /\ futures[u].state = "running" /\ calls[u].n_calls >= 1 /\ calls[u].pc = "loop"
        /\ futures[v].state = "done" /\ futures[v].collected
        /\ sum.summaries # <<>>

(***************************************************************************)
(* Claims about how summarize_prs_in_memory ends, checked under            *)
(* SpecSummarizeFair                                                       *)
(***************************************************************************)
AllFinished == \A t \in DOMAIN futures : Finished(futures[t])

\* batch t ended on its own account: with the formatted response its own
\* summarize_label returned, or with the terminal error of its own
\* exhausted attempts
FinishedByItself(t) ==
    /\ futures[t].state = "done" =>
          /\ calls[t].n_calls >= 1
          /\ futures[t].result = <<sum.tasks[t].repo, sum.tasks[t].label,
                                   format_summary_with_citations(calls[t].summary)>>
    /\ futures[t].state = "failed" =>
          /\ calls[t].n_calls = DefaultMaxRetries
          /\ futures[t].error # <<>>
          /\ futures[t].error[1].label = <<sum.tasks[t].repo, sum.tasks[t].label>>
          /\ futures[t].error[1].attempts = DefaultMaxRetries

\* the batches that have not finished
Unfinished == {t \in DOMAIN futures : ~Finished(futures[t])}

\* some worker can take a step on a batch
WorkersCanStep ==
    \/ ENABLED (\E t \in DOMAIN futures : WorkerStart(t))
    \/ ENABLED (\E t \in DOMAIN futures : LabelAttempt(t))
    \/ ENABLED (\E t \in DOMAIN futures : LabelWake(t))
    \/ ENABLED (\E t \in DOMAIN futures : LabelRaise(t))
    \/ \E t \in DOMAIN futures : BatchOver(t)

\* a finished future stays as it finished, and no future leaves the pool
\* other than by finishing
FuturesKept ==
    futures # <<>> =>
        /\ DOMAIN futures' = DOMAIN futures
        /\ \A t \in DOMAIN futures :
              /\ Finished(futures[t]) =>
                    /\ futures'[t].state = futures[t].state
                    /\ futures'[t].result = futures[t].result
                    /\ futures'[t].error = futures[t].error
              /\ futures[t].state = "running" =>
                    futures'[t].state \in {"running", "done", "failed"}
              /\ futures[t].state = "pending" =>
                    futures'[t].state \in {"pending", "running"}

\* C23: there is no cancellation.  After a batch has exhausted its
\* retries the other batches are still worked on (while one is unfinished
\* a worker can step, and no future is dropped or reset), and the failure
\* leaves summarize_prs_in_memory only when every batch has finished, each
\* on its own account; and once a batch has failed, that is what happens.
C23_NoCancellation ==
    /\ [](sum.pc = "raised" /\ futures # <<>> =>
             AllFinished /\ \A t \in DOMAIN futures : FinishedByItself(t))
    /\ [](Exhausted # {} /\ Unfinished # {} => sum.pc # "raised" /\ WorkersCanStep)
    /\ [][FuturesKept]_vars
    /\ (Exhausted # {}) ~> (sum.pc = "raised" /\ AllFinished)

\* the failure of one batch was taken first; the two other batches went on
\* to their own ends, one with a response and one with its own terminal
\* error, before the failure left the call
C23_Witness ==
    /\ sum.pc = "raised"
    /\ Len(futures) = 3
    /\ \E t, u, v \in DOMAIN futures :
          /\ futures[t].state = "failed" /\ futures[t].collected
          /\ futures[u].state = "done" /\ ~futures[u].collected
          /\ futures[v].state = "failed" /\ ~futures[v].collected

(***************************************************************************)
(* Claims about the end of one summarize_label call, checked under         *)
(* SpecLabel                                                               *)
(***************************************************************************)
\* the frame returned at its first validated attempt: the reply on record
\* is the one that parsed and passed the citation check, it is what is
\* returned, every earlier attempt failed and was followed by one wait,
\* and nothing was called or waited for after it
ReturnedAtFirstSuccess(c) ==
    /\ AttemptOutcome(c.reply, c.pr_urls) = "ok"
    /\ c.summary = c.reply.bullets
    /\ c.attempt < c.max_retries
    /\ c.n_calls = c.attempt + 1
    /\ Len(c.waits) = c.n_calls - 1
    /\ c.error = <<>>

\* C24: summarize_label returns the response of the first attempt that
\* parses and passes citation validation; the number of LLM calls is the
\* index of that attempt, one wait lies before each later attempt and none
\* after the last, and a call that has returned makes no further step.
C24_ReturnsFirstSuccess ==
    /\ [](\A t \in DOMAIN calls :
             calls[t].pc = "returned" => ReturnedAtFirstSuccess(calls[t]))
    /\ [][\A t \in DOMAIN calls :
             calls[t].pc = "returned" => calls'[t] = calls[t]]_vars

\* the second of four allowed attempts succeeded, for a batch of two PRs
C24_Witness ==
    \E t \in DOMAIN calls :
        /\ calls[t].pc = "returned"
        /\ calls[t].max_retries = 4
        /\ Len(calls[t].pr_urls) = 2
        /\ calls[t].n_calls = 2
        /\ calls[t].waits = <<1>>
        /\ calls[t].summary # <<>>

(***************************************************************************)
(* Claims about the year bounds of fetch_merged_prs, checked under         *)
(* SpecFetch                                                               *)
(***************************************************************************)
\* the pages whose items the running or returned call has gone through
PagesRead ==
    IF fetch.pc \in {"loop", "returned"}
    THEN {p \in DOMAIN host[fetch.repo] : p \in Range(requested)}
    ELSE {}

AtYearStart(raw, year) == raw.merged_at = Stamp(year, 1, 1, 0, 0, 0)
AtYearEnd(raw, year) == raw.merged_at = Stamp(year, 12, 31, 23, 59, 59)
SecondBeforeYear(raw, year) == raw.merged_at = Stamp(year - 1, 12, 31, 23, 59, 59)
SecondAfterYear(raw, year) == raw.merged_at = Stamp(year + 1, 1, 1, 0, 0, 0)

TitlesOfArea(bullets, a) ==
    LET InArea(b) == b.career_area = a
        chosen == SelectSeq(bullets, InArea)
    IN  [i \in DOMAIN chosen |-> chosen[i].title]

\* the titles of the bullets rendered below the heading at line h of
\* text, before the next heading, in the order of the lines
TitlesBelow(text, h) ==
    LET next == {j \in DOMAIN text : j > h /\ IsHeading(text[j])}
        to   == IF next = {} THEN Len(text)
                ELSE (CHOOSE j \in next : \A k \in next : j <= k) - 1
    IN  KeysInOrder(text, {j \in (h + 1)..to : IsBullet(text[j])})

\* text renders the response: its headings are the career areas of the
\* response, each once, in ascending order; below each stand the bullets
\* of that area in the order of the response; and there are as many bullet
\* lines as the response has bullets
RendersInOrder(text, bullets) ==
    LET hs    == LinesMarked(text, "###")
        areas == KeysInOrder(text, hs)
    IN  /\ Ascending(areas)
        /\ Range(areas) = {bullets[i].career_area : i \in DOMAIN bullets}
        /\ \A h \in hs : TitlesBelow(text, h) = TitlesOfArea(bullets, text[h][2])
        /\ Cardinality(LinesMarked(text, "- **")) = Len(bullets)
        /\ \A j \in LinesMarked(text, "- **") : \E h \in hs : h < j

\* C27: in the text format_summary_with_citations makes of a response, the
\* bullets of one career area stand in the order of the response, every
\* bullet of the response is rendered exactly once, and the career-area
\* sections stand in ascending order.
C27_BulletsInResponseOrder ==
    \A t \in DOMAIN futures :
        futures[t].state = "done" =>
            RendersInOrder(futures[t].result[3], calls[t].summary)

\* a response of three bullets, Impact, Craft, Impact, was formatted: Craft
\* comes first, and below Impact stand the first and the third bullet
C27_Witness ==
    \E t \in DOMAIN futures :
        /\ futures[t].state = "done"
        /\ Len(calls[t].summary) = 3
        /\ calls[t].summary[1].career_area = "Impact"
        /\ calls[t].summary[2].career_area = "Craft"
        /\ LET text == futures[t].result[3] IN
           /\ KeysInOrder(text, LinesMarked(text, "###")) = <<"Craft", "Impact">>
           /\ KeysInOrder(text, LinesMarked(text, "- **")) = <<"t2", "t1", "t3">>

(***************************************************************************)
(* Claims about how generate_summary starts the dispatcher, checked under  *)
(* Spec                                                                    *)
(***************************************************************************)
\* C28: through generate_summary, summarize_prs_in_memory is entered only
\* with the PRs that were fetched, at least one; so it builds at least one
\* batch, the pool is created with min(number of batches, 10) >= 1
\* workers, one future per batch, and when the call raises it is the
\* failure of a batch, never the executor's rejection of an empty pool.
C28_DispatcherNeverStartedEmpty ==
    /\ sum.pc # "idle" =>
          /\ api.pc \in {"summarizing", "responded"}
          /\ sum.prs = api.all_prs
          /\ sum.prs # <<>>
          /\ max_workers(Tasks(Batches(sum.prs))) >= 1
          /\ sum.pc = "raised" =>
                \E t \in DOMAIN futures : futures[t].state = "failed"
    /\ sum.pc \notin {"idle", "enter"} =>
          /\ sum.tasks = Tasks(Batches(sum.prs))
          /\ Len(sum.tasks) >= 1
          /\ Len(futures) = Len(sum.tasks)
          /\ max_workers(sum.tasks) >= 1
          /\ max_workers(sum.tasks) <= Len(sum.tasks)

\* the smallest case: two repositories were requested and one unlabeled PR
\* was fetched in all; its single batch is being worked on by a pool of
\* one
C28_Witness ==
    /\ api.pc = "summarizing"
    /\ Len(api.repos) = 2
    /\ Len(api.all_prs) = 1
    /\ api.all_prs[1].labels = <<>>
    /\ sum.pc = "collecting"
    /\ Len(sum.tasks) = 1
    /\ max_workers(sum.tasks) = 1
    /\ futures[1].state = "running"

\* C29: a summarize_label call with max_retries = 0 makes no LLM call and
\* no wait; all it can do is raise the terminal error, which reports 0
\* attempts and no underlying cause ("None").  And no call, whatever its
\* max_retries, has returned a response without an attempt that parsed and
\* passed the citation check.
C29_ZeroRetriesOnlyRaises ==
    \A t \in DOMAIN calls :
        /\ calls[t].max_retries = 0 =>
              /\ calls[t].n_calls = 0
              /\ calls[t].waits = <<>>
              /\ calls[t].summary = <<>>
              /\ calls[t].pc \in {"loop", "raised"}
              /\ calls[t].pc = "loop" =>
                    /\ ENABLED (\E u \in DOMAIN calls : LabelRaise(u))
                    /\ ~ENABLED (\E u \in DOMAIN calls : LabelAttempt(u))
                    /\ ~ENABLED (\E u \in DOMAIN calls : LabelWake(u))
              /\ calls[t].pc = "raised" =>
                    calls[t].error = <<[label |-> calls[t].label, attempts |-> 0,
                                        cause |-> "None"]>>
        /\ calls[t].pc = "returned" =>
              /\ calls[t].n_calls >= 1
              /\ calls[t].max_retries >= 1
              /\ AttemptOutcome(calls[t].reply, calls[t].pr_urls) = "ok"

\* a call for a batch of two PRs with max_retries = 0 has raised
C29_Witness ==
    \E t \in DOMAIN calls :
        /\ calls[t].max_retries = 0
        /\ Len(calls[t].pr_urls) = 2
        /\ calls[t].pc = "raised"
        /\ calls[t].n_calls = 0
        /\ calls[t].error[1].cause = "None"

(***************************************************************************)
(* Claims about the termination of summarize_prs_in_memory, checked under  *)
(* SpecSummarizeFair                                                       *)
(***************************************************************************)
SummarizeOver == sum.pc \in {"returned", "raised"}

\* C30: provided every LLM call and every backoff wait returns,
\* summarize_prs_in_memory finishes, with the document or with an error,
\* and there it stays; all the summarize_label calls together never make
\* more than (number of batches) x max_retries LLM calls, and no batch
\* more than max_retries.
C30_FinishesWithinCallBudget ==
    /\ <>SummarizeOver
    /\ [](SummarizeOver => ~SummarizeCanStep)
    /\ [](sum.pc = "returned" => sum.error = <<>> /\ sum.document # <<>>)
    /\ [](sum.pc = "raised" => sum.error # <<>> /\ sum.document = <<>>)
    /\ [](CallsMade(calls) <= Len(sum.tasks) * DefaultMaxRetries)
    /\ [](\A t \in DOMAIN calls : calls[t].n_calls <= DefaultMaxRetries)

\* a call of three batches finished with an error after the full budget of
\* nine LLM calls
C30_Witness ==
    /\ sum.pc = "raised"
    /\ Len(sum.tasks) = 3
    /\ CallsMade(calls) = 3 * DefaultMaxRetries
====
